---- MODULE Spec2Model ----
(***************************************************************************)
(* A model of the wapanel messaging gateway: the payload mapping of the    *)
(* webhook ingestion (green_msg.py), the history adapter                   *)
(* (history_downloader.py), the media store, the webhook handlers over the *)
(* message table (webhook.py), the rate limiter (limiter.py, client.py),   *)
(* the backfill lock (admin_qr.py) and the outbound dispatcher             *)
(* (msg_out_listener.py).                                                  *)
(***************************************************************************)
EXTENDS Integers, Sequences, FiniteSets, TLC

(***************************************************************************)
(* Python values.  None is a string no text of the model is equal to; a    *)
(* dict is a function whose DOMAIN is the set of keys present.             *)
(***************************************************************************)
None == "<None>"

Get(d, k) == IF k \in DOMAIN d THEN d[k] ELSE None

GetOr(d, k, dflt) == IF k \in DOMAIN d THEN d[k] ELSE dflt

\* bool(v) of a str-or-None value
Truthy(v) == v # None /\ v # ""

\* (v or dflt) of a str-or-None value
OrElse(v, dflt) == IF Truthy(v) THEN v ELSE dflt

\* c in s, for a one-character c
HasChar(s, c) == \E i \in 1..Len(s) : SubSeq(s, i, i) = c

\* the largest index of c in s, 0 when c is not in s
LastIndexOf(s, c) ==
    IF HasChar(s, c)
    THEN CHOOSE i \in 1..Len(s) :
            /\ SubSeq(s, i, i) = c
            /\ \A j \in (i+1)..Len(s) : SubSeq(s, j, j) # c
    ELSE 0

\* s.split(c)[-1] and os.path.basename(s) for c = "/"
AfterLast(s, c) == SubSeq(s, LastIndexOf(s, c) + 1, Len(s))

\* s.rsplit(c, 1)[0]
BeforeLast(s, c) ==
    IF HasChar(s, c) THEN SubSeq(s, 1, LastIndexOf(s, c) - 1) ELSE s

\* sep.join(parts)
RECURSIVE Join(_, _)
Join(parts, sep) ==
    IF Len(parts) = 0 THEN ""
    ELSE IF Len(parts) = 1 THEN parts[1]
    ELSE parts[1] \o sep \o Join(Tail(parts), sep)

\* [f(x) for x in s if p(x)] as SelectSeq + map
MapSeq(s, F(_)) == [i \in 1..Len(s) |-> F(s[i])]

(***************************************************************************)
(* green_msg.py: the message types and the payload mapping.                *)
(***************************************************************************)
_EXT2FCLS ==
    [ imageMessage    |-> [mt |-> "file_image", fcls |-> "image"],
      stickerMessage  |-> [mt |-> "file_image", fcls |-> "image"],
      videoMessage    |-> [mt |-> "file_video", fcls |-> "video"],
      audioMessage    |-> [mt |-> "file_audio", fcls |-> "audio"],
      documentMessage |-> [mt |-> "file_doc",   fcls |-> "other"] ]

_IGNORE_MTYPE ==
    {"pollUpdateMessage", "interactiveButtonsReply", "templateButtonsReplyMessage"}

TextMTypes ==
    {"textMessage", "extendedTextMessage", "reactionMessage", "quotedMessage"}

\* urlparse(url).path of the download URLs of the model: the text after the
\* host, with the query string cut off
UrlPath(url) ==
    IF ~Truthy(url) THEN ""
    ELSE LET noq == IF HasChar(url, "?")
                    THEN SubSeq(url, 1, LastIndexOf(url, "?") - 1) ELSE url
         IN  IF Len(noq) >= 8 /\ SubSeq(noq, 1, 8) = "https://"
             THEN LET rest == SubSeq(noq, 9, Len(noq))
                  IN  IF HasChar(rest, "/")
                      THEN SubSeq(rest,
                                  CHOOSE i \in 1..Len(rest) :
                                     /\ SubSeq(rest, i, i) = "/"
                                     /\ \A j \in 1..(i-1) : SubSeq(rest, j, j) # "/",
                                  Len(rest))
                      ELSE ""
             ELSE noq

\* the name the media branch stores the file under
MediaFileName(fm, wa_id) ==
    LET given == Get(fm, "fileName")
        fromUrl == AfterLast(UrlPath(GetOr(fm, "downloadUrl", "")), "/")
        fname == IF Truthy(given) THEN given
                 ELSE IF fromUrl # "" THEN fromUrl ELSE wa_id
    IN  IF ~HasChar(fname, ".") /\ Truthy(Get(fm, "mimeType"))
        THEN fname \o "." \o AfterLast(fm["mimeType"], "/")
        ELSE fname

_location_to_text(mdata) ==
    LET d == mdata["locationMessageData"]
    IN  "<location>\n" \o OrElse(Get(d, "nameLocation"), "") \o "\n"
          \o GetOr(d, "address", "") \o "\n"
          \o "lat " \o OrElse(d["latitude"], "--") \o ", lon " \o d["longitude"]

\* a vcard is its lines; a line is the text before "waid=" and the text after
\* it (None when the line holds no "waid=")
_contact_to_text(d) ==
    LET name == OrElse(Get(d, "displayName"), "Contact")
        hits == SelectSeq(d["vcard"], LAMBDA line : line.waid # None)
        phones == Join(MapSeq(hits, LAMBDA line : line.waid), ", ")
    IN  "<contact>\n" \o name \o ":\n" \o phones

\* what download_safe hands back: None, or (abs_path, size) with
\* abs_path = MEDIA_ROOT/<yyyy>/<mm>/<fname>
NoDownload == [ok |-> FALSE]

Downloaded(size) == [ok |-> TRUE, size |-> size]

\* dst_dir / fname, relative to MEDIA_ROOT (one month directory)
LocalPath(fname) == "2025/06/" \o fname

\* _public_url
_public_url(abs_path) == "/media/" \o abs_path

\* cl.download_file raised something that is not a GreenAPIError (the
\* request itself failed): client.py catches only GreenAPIError
Raised == "<raised>"

P2MNone(eff) == [kind |-> "none", effects |-> eff]

P2MRaise(exc, eff) == [kind |-> "raise", exc |-> exc, effects |-> eff]

P2MMsg(msg, eff) == [kind |-> "msg", msg |-> msg, effects |-> eff]

\* the skeleton Message of payload_to_msg
MsgSkeleton(payload, db_instance_id, incoming, archived) ==
    LET chat_id == payload.senderData.chatId
        phone == BeforeLast(chat_id, "@")
    IN  [ instance_id   |-> db_instance_id,
          wa_message_id |-> payload.idMessage,
          chat_id       |-> chat_id,
          chat_name     |-> OrElse(Get(payload.senderData, "senderName"), phone),
          from_app      |-> FALSE,
          direction     |-> IF incoming THEN "inc" ELSE "out",
          status        |-> "inc",
          message_type  |-> "notification",
          text          |-> None,
          is_archived   |-> archived,
          tg_message_id |-> None,
          files         |-> << >> ]

\* the media branch.  lookup is what cl.download_file answers when the payload
\* carries no download URL (a URL, None, or Raised); dl is what download_safe
\* answers for a non-empty URL (NoDownload or Downloaded(size)).
MediaBranch(msg, mdata, lookup, dl, eff0) ==
    IF "fileMessageData" \notin DOMAIN mdata THEN P2MRaise("KeyError", eff0)
    ELSE
    LET cls == _EXT2FCLS[mdata.typeMessage]
        fm == mdata.fileMessageData
        fname == MediaFileName(fm, msg.wa_message_id)
        fcaption == Get(fm, "caption")
        inline == Get(fm, "downloadUrl")
        needLookup == ~Truthy(inline)
        dl_url == IF needLookup THEN OrElse(lookup, "") ELSE inline
        eff1 == eff0 \cup {"get_client"}
                     \cup (IF needLookup THEN {"download_file"} ELSE {})
        downloaded == IF dl_url = "" THEN NoDownload ELSE dl
        eff2 == eff1 \cup (IF dl_url = "" THEN {} ELSE {"download"})
    IN  IF needLookup /\ lookup = Raised THEN P2MRaise("TransportError", eff1)
        ELSE IF ~downloaded.ok
        THEN P2MMsg([msg EXCEPT
                 !.message_type = "text",
                 !.text = IF Truthy(fcaption)
                          THEN fcaption \o "\n<could not download ("
                                 \o OrElse(Get(fm, "fileName"), "--") \o ")>"
                          ELSE "<could not download ("
                                 \o OrElse(Get(fm, "fileName"), "no-name") \o ")>"],
               eff2)
        ELSE IF "mimeType" \notin DOMAIN fm THEN P2MRaise("KeyError", eff2)
        ELSE P2MMsg([msg EXCEPT
                 !.message_type = cls.mt,
                 !.files = << [ file_type |-> cls.fcls,
                                name      |-> fname,
                                mime      |-> fm.mimeType,
                                file_path |-> LocalPath(fname),
                                file_url  |-> _public_url(LocalPath(fname)),
                                size      |-> downloaded.size ] >>,
                 !.text = Get(fm, "caption")],
               eff2)

\* the branches that render the message as text
TextBranch(msg, mdata, eff) ==
    LET mtype == mdata.typeMessage
        asText(t) == P2MMsg([msg EXCEPT !.message_type = "text", !.text = t], eff)
        keyErr == P2MRaise("KeyError", eff)
    IN  IF mtype \in TextMTypes
        THEN LET field == IF mtype = "textMessage" THEN "textMessageData"
                          ELSE "extendedTextMessageData"
                 key == IF mtype = "textMessage" THEN "textMessage" ELSE "text"
             IN  IF field \notin DOMAIN mdata THEN keyErr
                 ELSE IF key \notin DOMAIN mdata[field] THEN keyErr
                 ELSE asText(mdata[field][key])
        ELSE IF mtype = "locationMessage"
        THEN IF "locationMessageData" \notin DOMAIN mdata THEN keyErr
             ELSE IF {"latitude", "longitude"} \subseteq DOMAIN mdata.locationMessageData
             THEN asText(_location_to_text(mdata))
             ELSE keyErr
        ELSE IF mtype = "contactMessage"
        THEN IF "contactMessageData" \notin DOMAIN mdata THEN keyErr
             ELSE IF "vcard" \notin DOMAIN mdata.contactMessageData THEN keyErr
             ELSE asText(_contact_to_text(mdata.contactMessageData))
        ELSE IF mtype = "contactsArrayMessage"
        THEN IF "messageData" \notin DOMAIN mdata THEN keyErr
             ELSE IF "contacts" \notin DOMAIN mdata.messageData THEN keyErr
             ELSE asText(Join(MapSeq(mdata.messageData.contacts, _contact_to_text), "\n"))
        ELSE IF mtype = "groupInviteMessage"
        THEN IF "groupInviteMessageData" \notin DOMAIN mdata THEN keyErr
             ELSE LET g == mdata.groupInviteMessageData
                  IN  asText("<group invite>\n" \o g.groupName \o " (" \o g.groupJid \o ")")
        ELSE IF mtype = "pollMessage"
        THEN IF "pollMessageData" \notin DOMAIN mdata THEN keyErr
             ELSE LET p == mdata.pollMessageData
                      opts == Join(MapSeq(p.options, LAMBDA o : "- " \o o.optionName), "\n")
                  IN  asText("<poll>\n" \o p.name \o "\n" \o opts)
        ELSE IF mtype = "interactiveButtons"
        THEN IF "interactiveButtons" \notin DOMAIN mdata THEN keyErr
             ELSE LET b == mdata.interactiveButtons
                      btns == Join(MapSeq(b.buttons, LAMBDA btn : btn.buttonText), " | ")
                  IN  asText(GetOr(b, "titleText", "") \o "\n" \o b.contentText
                               \o "\n-------\n" \o btns)
        ELSE asText("<unsupported message type: " \o mtype \o ">")

\* payload_to_msg as a function of the payload and of what the provider
\* answers.  effects names what was touched on the way: "conversation"
\* (get_or_create_conversation), "get_client", "download_file", "download".
PayloadToMsg(payload, db_instance_id, incoming, archived, lookup, dl) ==
    LET mdata == payload.messageData
        mtype == mdata.typeMessage
    IN  IF mtype \in _IGNORE_MTYPE THEN P2MNone({})
        ELSE LET msg == MsgSkeleton(payload, db_instance_id, incoming, archived)
                 eff == {"conversation"}
             IN  IF mtype \in DOMAIN _EXT2FCLS
                 THEN MediaBranch(msg, mdata, lookup, dl, eff)
                 ELSE TextBranch(msg, mdata, eff)

(***************************************************************************)
(* history_downloader.py: the history -> webhook adapter.                  *)
(***************************************************************************)
_OUTGOING_BY_API == "outgoingAPIMessageReceived"

_OUTGOING_BY_PHONE == "outgoingMessageReceived"

_INCOMING == "incomingMessageReceived"

_FILE_MTYPES ==
    {"imageMessage", "videoMessage", "audioMessage", "documentMessage", "stickerMessage"}

EmptyDict == [k \in {} |-> None]

_mk_sender(entry) ==
    [ chatId            |-> entry.chatId,
      sender            |-> GetOr(entry, "senderId", entry.chatId),
      chatName          |-> GetOr(entry, "senderName", ""),
      senderName        |-> GetOr(entry, "senderName", ""),
      senderContactName |-> GetOr(entry, "senderContactName", "") ]

_file_section(entry) ==
    [ downloadUrl   |-> Get(entry, "downloadUrl"),
      caption       |-> OrElse(Get(entry, "caption"), ""),
      fileName      |-> OrElse(Get(entry, "fileName"), ""),
      jpegThumbnail |-> OrElse(Get(entry, "jpegThumbnail"), ""),
      mimeType      |-> OrElse(Get(entry, "mimeType"), ""),
      isAnimated    |-> GetOr(entry, "isAnimated", FALSE) ]

\* the messageData the adapter builds: [ok |-> TRUE, d |-> it], or
\* [ok |-> FALSE] when a key the adapter indexes is missing from the entry
HistoryMessageData(entry) ==
    LET mtype == entry.typeMessage
        base == ("typeMessage" :> mtype)
        keyErr == [ok |-> FALSE]
        built(d) == [ok |-> TRUE, d |-> d]
        need(keys, d) == IF keys \subseteq DOMAIN entry THEN built(d) ELSE keyErr
    IN  IF mtype = "textMessage"
        THEN need({"textMessage"},
                  base @@ ("textMessageData" :> [textMessage |-> entry.textMessage]))
        ELSE IF mtype = "extendedTextMessage"
        THEN IF Truthy(Get(entry, "textMessage"))
             THEN built(base @@ ("extendedTextMessageData" :> [text |-> entry.textMessage]))
             ELSE IF "extendedTextMessage" \notin DOMAIN entry THEN keyErr
             ELSE IF "text" \notin DOMAIN entry.extendedTextMessage THEN keyErr
             ELSE built(base @@ ("extendedTextMessageData" :>
                                     [text |-> entry.extendedTextMessage.text]))
        ELSE IF mtype = "reactionMessage"
        THEN need({"extendedTextMessageData"},
                  base @@ ("extendedTextMessageData" :> entry.extendedTextMessageData)
                       @@ (IF "quotedMessage" \in DOMAIN entry
                           THEN ("quotedMessage" :> entry.quotedMessage)
                           ELSE EmptyDict))
        ELSE IF mtype = "quotedMessage"
        THEN need({"extendedTextMessage", "quotedMessage"},
                  base @@ ("extendedTextMessageData" :> entry.extendedTextMessage)
                       @@ ("quotedMessage" :> entry.quotedMessage))
        ELSE IF mtype \in _FILE_MTYPES
        THEN built(base @@ ("fileMessageData" :> _file_section(entry)))
        ELSE IF mtype = "locationMessage"
        THEN need({"location"}, base @@ ("locationMessageData" :> entry.location))
        ELSE IF mtype = "contactMessage"
        THEN need({"contact"}, base @@ ("contactMessageData" :> entry.contact))
        ELSE IF mtype = "contactsArrayMessage"
        THEN need({"contacts"}, base @@ ("messageData" :> [contacts |-> entry.contacts]))
        ELSE IF mtype \in {"pollMessage", "pollUpdateMessage"}
        THEN need({"pollMessageData"},
                  base @@ ("pollMessageData" :> entry.pollMessageData))
        ELSE IF mtype = "interactiveButtons"
        THEN need({"interactiveButtons"},
                  base @@ ("interactiveButtons" :> entry.interactiveButtons))
        ELSE built(base)

\* history_entry_to_payload; [kind |-> "raise"] when it raises KeyError
history_entry_to_payload(entry, api_id) ==
    IF ~({"type", "idMessage", "timestamp", "chatId", "typeMessage"} \subseteq DOMAIN entry)
    THEN [kind |-> "raise", exc |-> "KeyError"]
    ELSE
    LET type_webhook ==
            IF entry.type = "incoming" THEN _INCOMING
            ELSE IF GetOr(entry, "sendByApi", FALSE) THEN _OUTGOING_BY_API
            ELSE _OUTGOING_BY_PHONE
        mdata == HistoryMessageData(entry)
    IN  IF ~mdata.ok THEN [kind |-> "raise", exc |-> "KeyError"]
        ELSE [ kind |-> "payload",
               payload |->
                 [ typeWebhook  |-> type_webhook,
                   idMessage    |-> entry.idMessage,
                   timestamp    |-> entry.timestamp,
                   instanceData |-> [idInstance |-> api_id],
                   senderData   |-> _mk_sender(entry),
                   messageData  |-> mdata.d ]
                 @@ (IF "statusMessage" \in DOMAIN entry
                     THEN ("status" :> entry.statusMessage) ELSE EmptyDict) ]

\* what load_history does with one entry that is not yet stored: the adapter,
\* then payload_to_msg with archived=True
IngestHistoryEntry(entry, api_id, db_instance_id, lookup, dl) ==
    LET adapted == history_entry_to_payload(entry, api_id)
    IN  IF adapted.kind = "raise" THEN P2MRaise(adapted.exc, {})
        ELSE PayloadToMsg(adapted.payload, db_instance_id,
                          entry.type = "incoming", TRUE, lookup, dl)

(***************************************************************************)
(* One provider message in its two shapes: the webhook payload the live    *)
(* handlers receive and the getChatHistory entry the backfill receives, as *)
(* payload_to_msg and history_entry_to_payload read them.  A message is    *)
(* [mtype, c] with c the type's content; Absent marks an optional key the  *)
(* provider left out.                                                      *)
(***************************************************************************)
Absent == "<absent>"

Opt(k, v) == IF v = Absent THEN EmptyDict ELSE (k :> v)

SampleTexts == {"hi", ""}

\* fileMessageData always carries a caption, empty when the message has none
SampleCaptions == {"", "cap"}

SampleFileNames == {Absent, "a.jpg", "doc"}

SampleUrls == {Absent, "https://cdn.example/m/b.png?sig=1"}

SampleVcard == << [pre |-> "BEGIN:VCARD", waid |-> None],
                  [pre |-> "TEL;", waid |-> "79001112233"],
                  [pre |-> "END:VCARD", waid |-> None] >>

SampleContact == [displayName |-> "Ann", vcard |-> SampleVcard]

MimeOf(mtype) ==
    CASE mtype = "imageMessage"    -> "image/jpeg"
      [] mtype = "stickerMessage"  -> "image/webp"
      [] mtype = "videoMessage"    -> "video/mp4"
      [] mtype = "audioMessage"    -> "audio/ogg"
      [] mtype = "documentMessage" -> "application/pdf"

LiveMedia ==
    { [mtype |-> t,
       c |-> Opt("downloadUrl", u) @@ Opt("caption", cap) @@ Opt("fileName", fn)
               @@ ("mimeType" :> MimeOf(t))] :
        t \in _FILE_MTYPES, u \in SampleUrls, cap \in SampleCaptions,
        fn \in SampleFileNames }

LiveTexts ==
    { [mtype |-> t, c |-> [text |-> x]] : t \in TextMTypes, x \in SampleTexts }

LiveSpecial ==
    { [mtype |-> "locationMessage",
       c |-> Opt("nameLocation", n) @@
             [address |-> "Main st", latitude |-> "55.7", longitude |-> "37.6"]] :
        n \in {Absent, "Office"} }
    \cup
    { [mtype |-> "contactMessage", c |-> SampleContact],
      [mtype |-> "contactMessage", c |-> [vcard |-> SampleVcard]],
      [mtype |-> "contactsArrayMessage",
       c |-> [contacts |-> << SampleContact, [vcard |-> SampleVcard] >>]],
      [mtype |-> "groupInviteMessage",
       c |-> [groupName |-> "Team", groupJid |-> "1203@g.us"]],
      [mtype |-> "pollMessage",
       c |-> [name |-> "Lunch?",
              options |-> << [optionName |-> "yes"], [optionName |-> "no"] >>]],
      [mtype |-> "interactiveButtons",
       c |-> [titleText |-> "Menu", contentText |-> "Pick",
              buttons |-> << [buttonText |-> "A"], [buttonText |-> "B"] >>]],
      [mtype |-> "interactiveButtons",
       c |-> [contentText |-> "Pick", buttons |-> << [buttonText |-> "A"] >>]] }

LiveIgnored ==
    { [mtype |-> "pollUpdateMessage", c |-> [name |-> "Lunch?"]],
      [mtype |-> "interactiveButtonsReply", c |-> EmptyDict],
      [mtype |-> "templateButtonsReplyMessage", c |-> EmptyDict] }

\* a type payload_to_msg has no branch for
LiveUnknown == { [mtype |-> "editedMessage", c |-> EmptyDict] }

LiveMessages == LiveMedia \cup LiveTexts \cup LiveSpecial \cup LiveIgnored \cup LiveUnknown

\* the types payload_to_msg has a branch for
HandledMTypes ==
    TextMTypes \cup _FILE_MTYPES \cup
    {"locationMessage", "contactMessage", "contactsArrayMessage",
     "groupInviteMessage", "pollMessage", "interactiveButtons"}

\* messageData of the webhook payload of message m
NativeMessageData(m) ==
    LET t == m.mtype
        base == ("typeMessage" :> t)
    IN  IF t = "textMessage"
        THEN base @@ ("textMessageData" :> [textMessage |-> m.c.text])
        ELSE IF t = "extendedTextMessage"
        THEN base @@ ("extendedTextMessageData" :> [text |-> m.c.text])
        ELSE IF t \in {"reactionMessage", "quotedMessage"}
        THEN base @@ ("extendedTextMessageData" :> [text |-> m.c.text])
                  @@ ("quotedMessage" :> [stanzaId |-> "q1"])
        ELSE IF t \in _FILE_MTYPES THEN base @@ ("fileMessageData" :> m.c)
        ELSE IF t = "locationMessage" THEN base @@ ("locationMessageData" :> m.c)
        ELSE IF t = "contactMessage" THEN base @@ ("contactMessageData" :> m.c)
        ELSE IF t = "contactsArrayMessage" THEN base @@ ("messageData" :> m.c)
        ELSE IF t = "groupInviteMessage" THEN base @@ ("groupInviteMessageData" :> m.c)
        ELSE IF t \in {"pollMessage", "pollUpdateMessage"}
        THEN base @@ ("pollMessageData" :> m.c)
        ELSE IF t = "interactiveButtons" THEN base @@ ("interactiveButtons" :> m.c)
        ELSE base

\* the webhook payload of message m
NativePayload(m, api_id, wa_id, chat_id, incoming) ==
    [ typeWebhook  |-> IF incoming THEN _INCOMING ELSE _OUTGOING_BY_PHONE,
      idMessage    |-> wa_id,
      timestamp    |-> 1,
      instanceData |-> [idInstance |-> api_id],
      senderData   |-> [chatId |-> chat_id, senderName |-> "Bob"],
      messageData  |-> NativeMessageData(m) ]

\* the getChatHistory entry of message m
HistoryEntry(m, wa_id, chat_id, incoming) ==
    LET t == m.mtype
        base == [ type |-> IF incoming THEN "incoming" ELSE "outgoing",
                  idMessage |-> wa_id, timestamp |-> 1, typeMessage |-> t,
                  chatId |-> chat_id, senderName |-> "Bob" ]
    IN  IF t = "textMessage" THEN base @@ ("textMessage" :> m.c.text)
        ELSE IF t = "extendedTextMessage"
        THEN base @@ ("textMessage" :> m.c.text)
                  @@ ("extendedTextMessage" :> [text |-> m.c.text])
        ELSE IF t = "reactionMessage"
        THEN base @@ ("extendedTextMessageData" :> [text |-> m.c.text])
                  @@ ("quotedMessage" :> [stanzaId |-> "q1"])
        ELSE IF t = "quotedMessage"
        THEN base @@ ("extendedTextMessage" :> [text |-> m.c.text])
                  @@ ("quotedMessage" :> [stanzaId |-> "q1"])
        ELSE IF t \in _FILE_MTYPES THEN base @@ m.c
        ELSE IF t = "locationMessage" THEN base @@ ("location" :> m.c)
        ELSE IF t = "contactMessage" THEN base @@ ("contact" :> m.c)
        ELSE IF t = "contactsArrayMessage" THEN base @@ ("contacts" :> m.c.contacts)
        ELSE IF t = "groupInviteMessage" THEN base @@ ("groupInviteMessageData" :> m.c)
        ELSE IF t \in {"pollMessage", "pollUpdateMessage"}
        THEN base @@ ("pollMessageData" :> m.c)
        ELSE IF t = "interactiveButtons" THEN base @@ ("interactiveButtons" :> m.c)
        ELSE base

(***************************************************************************)
(* The mapping applied to one message: once to its webhook payload, once   *)
(* to its history entry, under the same provider answers.                  *)
(***************************************************************************)
\* the mapping applied to one message
VARIABLES mapIn, mapNative, mapHist

\* the database, the media directory, the webhook handlers and uploads
VARIABLES messages, conversations, fs, wh, delivered, up

\* one limiter of one client, the clock and the client's operations
VARIABLES lim, now, ops

\* the backfill locks, the backfill requests and the jobs
VARIABLES history_lock, req, jobs

\* the outbound dispatcher and the provider calls it has issued
VARIABLES dsp, calls

\* GreenAPIClient: its limiters, the QR cache and its lock, the operations
\* in flight and the event loop's clock
VARIABLES _limiters, _qr_cache, _qr_lock, cop, loop_time

\* ClientManager: the instances table, the clients, the number of clients
\* constructed, the changes made to the table, and the calls in flight
VARIABLES instances, _clients, made, changes, reg

\* the change bus: the last callback run and the work started so far
VARIABLES bus, spawned

\* the inbound handler, the bot calls it has issued, the ids of the is_auto
\* rows, the instance's auto-reply settings, the notifications so far
VARIABLES inb, tg_sent, autos, auto_cfg, notifies

\* one caller of one limiter: the limiter, the clock, the tokens drawn and
\* the times of the first and the last
VARIABLES pace

\* the settings the provider holds for one account and the calls of
\* _ensure_webhook for it
VARIABLES provider_settings, ens

\* the three subscription tasks and the start and stop of the application
VARIABLES lsn, lifecycle

\* the call of load_history at hand
VARIABLES hist

\* the call of _split_message at hand
VARIABLES split

\* the inbound handlers that run side by side, one per notification
VARIABLES inh

mapVars == <<mapIn, mapNative, mapHist>>

dbVars == <<messages, conversations, fs, wh, delivered>>

limVars == <<lim, now, ops>>

bfVars == <<history_lock, req, jobs>>

outVars == <<dsp, calls>>

clVars == <<_limiters, _qr_cache, _qr_lock, cop, loop_time>>

regVars == <<instances, _clients, made, changes, reg>>

busVars == <<bus, spawned>>

inVars == <<inb, tg_sent, autos, auto_cfg, notifies>>

ensVars == <<provider_settings, ens>>

lsnVars == <<lsn, lifecycle>>

\* the parts added after the first eleven
\* the parts added after the first fourteen
endVars == <<split, inh>>

tailVars == <<ensVars, lsnVars, hist, endVars>>

\* the parts added after the first eight
lateVars == <<busVars, inVars, pace, tailVars>>

\* the parts added after the first six
moreVars == <<clVars, regVars, lateVars>>

vars == <<mapVars, dbVars, up, limVars, bfVars, outVars, moreVars>>

\* what the steps of one part leave alone
mapFrame == <<dbVars, up, limVars, bfVars, outVars, moreVars>>

whFrame == <<mapVars, up, limVars, bfVars, outVars, moreVars>>

upFrame == <<mapVars, limVars, bfVars, outVars, moreVars>>

limFrame == <<mapVars, dbVars, up, bfVars, outVars, moreVars>>

bfFrame == <<mapVars, dbVars, up, limVars, outVars, moreVars>>

outFrame == <<mapVars, conversations, wh, delivered, up, limVars, bfVars, moreVars>>

\* the first six parts, which the later ones leave alone
baseVars == <<mapVars, dbVars, up, limVars, bfVars, outVars>>

clFrame == <<baseVars, regVars, lateVars>>

regFrame == <<baseVars, clVars, lateVars>>

\* the first eight parts, which the later ones leave alone
earlyVars == <<baseVars, clVars, regVars>>

busFrame == <<earlyVars, inVars, pace, tailVars>>

paceFrame == <<earlyVars, busVars, inVars, tailVars>>

\* the first eleven parts, which the later ones leave alone
midVars == <<earlyVars, busVars, inVars, pace>>

ensFrame == <<midVars, lsnVars, hist, endVars>>

lsnFrame == <<midVars, ensVars, hist, endVars>>

histFrame == <<mapVars, fs, wh, delivered, up, limVars, bfVars, outVars, clVars, regVars,
               busVars, inVars, pace, ensVars, lsnVars, endVars>>

\* the first fourteen parts, which the last ones leave alone
headVars == <<midVars, ensVars, lsnVars, hist>>

splitFrame == <<headVars, inh>>

\* what the steps of the inbound handlers side by side leave alone
conFrame ==
    <<mapVars, conversations, fs, wh, delivered, up, limVars, bfVars, outVars, clVars,
      regVars, busVars, inb, pace, ensVars, lsnVars, hist, split>>

inFrame == <<mapVars, conversations, fs, wh, delivered, up, limVars, bfVars, outVars,
             clVars, regVars, busVars, pace, tailVars>>

Unset == [kind |-> "unset"]

\* what cl.download_file may answer
Lookups == {"https://cdn.example/m/c.png", None, Raised}

\* what download_safe may answer for a non-empty URL
DownloadOutcomes == {NoDownload, Downloaded(1)}

MapApiId == 7105

MapInstanceId == 1

MapInputs ==
    [ m : LiveMessages, incoming : BOOLEAN, lookup : Lookups, dl : DownloadOutcomes ]

MapInit ==
    /\ mapIn \in MapInputs
    /\ mapNative = Unset
    /\ mapHist = Unset

MapIdle ==
    /\ mapIn = [m |-> [mtype |-> "textMessage", c |-> [text |-> ""]],
                incoming |-> TRUE, lookup |-> None, dl |-> NoDownload]
    /\ mapNative = Unset
    /\ mapHist = Unset

\* the live handlers: payload_to_msg on the webhook payload
ApplyNative ==
    /\ mapNative = Unset
    /\ mapNative' = PayloadToMsg(
                       NativePayload(mapIn.m, MapApiId, "wa1", "79001112233@c.us",
                                     mapIn.incoming),
                       MapInstanceId, mapIn.incoming, FALSE, mapIn.lookup, mapIn.dl)
    /\ UNCHANGED <<mapIn, mapHist, mapFrame>>

\* the backfill: the adapter, then payload_to_msg
ApplyHistory ==
    /\ mapHist = Unset
    /\ mapHist' = IngestHistoryEntry(
                     HistoryEntry(mapIn.m, "wa1", "79001112233@c.us", mapIn.incoming),
                     MapApiId, MapInstanceId, mapIn.lookup, mapIn.dl)
    /\ UNCHANGED <<mapIn, mapNative, mapFrame>>

MapNext == ApplyNative \/ ApplyHistory

\* C6: for every history entry of a type payload_to_msg handles, the adapter
\* followed by payload_to_msg yields the same message type, text and number
\* of attachments as payload_to_msg on the webhook payload of the same message.
C6_HistoryEqualsNative ==
    (mapNative # Unset /\ mapHist # Unset /\ mapIn.m.mtype \in HandledMTypes)
        => /\ mapNative.kind = mapHist.kind
           /\ mapNative.kind = "msg" =>
                /\ mapNative.msg.message_type = mapHist.msg.message_type
                /\ mapNative.msg.text = mapHist.msg.text
                /\ Len(mapNative.msg.files) = Len(mapHist.msg.files)

\* C8: payload_to_msg returns None exactly for the ignore-set, then without
\* any side effect; every other type yields a Message.
C8_NoneIffIgnored ==
    mapNative # Unset
        => /\ (mapNative.kind = "none") <=> (mapIn.m.mtype \in _IGNORE_MTYPE)
           /\ mapIn.m.mtype \in _IGNORE_MTYPE => mapNative.effects = {}
           /\ mapIn.m.mtype \notin _IGNORE_MTYPE => mapNative.kind = "msg"

\* whether the download of message m ends with a file, given the answers
MapDownloadSucceeds ==
    /\ mapIn.dl.ok
    /\ \/ Truthy(Get(mapIn.m.c, "downloadUrl"))
       \/ mapIn.lookup \notin {None, Raised}

\* C9: a media payload is never dropped; with a downloaded file the Message
\* has the file type of the category, one attachment with the provider's MIME
\* and the caption as text; with no file it is a text Message without
\* attachments holding the placeholder, after the caption when there is one.
C9_MediaNeverDropped ==
    (mapNative # Unset /\ mapIn.m.mtype \in _FILE_MTYPES)
        => /\ mapNative.kind = "msg"
           /\ MapDownloadSucceeds =>
                /\ mapNative.msg.message_type = _EXT2FCLS[mapIn.m.mtype].mt
                /\ Len(mapNative.msg.files) = 1
                /\ mapNative.msg.files[1].mime = mapIn.m.c.mimeType
                /\ mapNative.msg.text = Get(mapIn.m.c, "caption")
           /\ ~MapDownloadSucceeds =>
                /\ mapNative.msg.message_type = "text"
                /\ Len(mapNative.msg.files) = 0
                /\ LET cap == Get(mapIn.m.c, "caption")
                       ph(dflt) == "<could not download ("
                                     \o OrElse(Get(mapIn.m.c, "fileName"), dflt) \o ")>"
                   IN  mapNative.msg.text =
                         IF Truthy(cap) THEN cap \o "\n" \o ph("--") ELSE ph("no-name")

(***************************************************************************)
(* The database, the media directory and the webhook handlers              *)
(* (webhook.py), one step per await.                                       *)
(***************************************************************************)
MaxHandlers == 2

MaxDeliveries == 2

Handlers == 1..MaxHandlers

\* download_safe's retries parameter
retries == 3

\* the instances table: api_id -> id
Instances == (MapApiId :> MapInstanceId)

UnknownApiId == MapApiId + 1

\* what session.scalar answers for "no row" where the model holds an id
NoId == 0

resolve_internal_id(api_id) == GetOr(Instances, api_id, NoId)

_STATUS2ENUM ==
    [ sent |-> "sent", delivered |-> "delivered", read |-> "read",
      failed |-> "api_error", noAccount |-> "api_error", notInGroup |-> "api_error" ]

_HANDLERS ==
    [ incomingMessageReceived    |-> "_handle_incoming",
      outgoingMessageReceived    |-> "_handle_outgoing",
      outgoingAPIMessageReceived |-> "_handle_outgoing",
      outgoingMessageStatus      |-> "_handle_status",
      incomingCall               |-> "_handle_call" ]

\* a messages table without the unique constraint
NoUqMessageWa(rows, instance_id, wa_message_id) == FALSE

\* UniqueConstraint("instance_id", "wa_message_id"); NULLs never collide
UqMessageWa(rows, instance_id, wa_message_id) ==
    /\ wa_message_id # None
    /\ \E i \in 1..Len(rows) :
          /\ rows[i].instance_id = instance_id
          /\ rows[i].wa_message_id = wa_message_id

\* the SELECT both _handle_outgoing and _handle_status issue: the id of the
\* row with this instance and provider message id, 0 when there is none
SelectMessage(instance_id, wa_message_id) ==
    LET hits == { i \in 1..Len(messages) :
                     /\ messages[i].instance_id = instance_id
                     /\ messages[i].wa_message_id = wa_message_id }
    IN  IF hits = {} THEN NoId ELSE CHOOSE i \in hits : \A j \in hits : i <= j

ConvKey(instance_id, chat_id) == [instance_id |-> instance_id, chat_id |-> chat_id]

\* notify_send_error's system Message
SysMessage(orig, reason) ==
    [ instance_id   |-> orig.instance_id,
      wa_message_id |-> None,
      chat_id       |-> orig.chat_id,
      chat_name     |-> orig.chat_name,
      from_app      |-> TRUE,
      direction     |-> "sys",
      status        |-> "inc",
      message_type  |-> "notification",
      text          |-> "<ERR_PREFIX>\n" \o reason,
      is_archived   |-> FALSE,
      tg_message_id |-> None,
      files         |-> << >> ]

NoPayload == [typeWebhook |-> None]

IdleWh ==
    [ pc |-> "idle", payload |-> NoPayload, inst |-> NoId, lookup |-> None,
      attempt |-> 0, dl |-> NoDownload, row |-> NoId, out |-> "none" ]

\* the handler has returned (or raised): the slot is free again and keeps
\* the payload and the outcome of its last run
Finished(w, out) == [IdleWh EXCEPT !.payload = w.payload, !.out = out]

WhIncoming(w) == w.payload.typeWebhook = _INCOMING

WhFileData(w) == w.payload.messageData.fileMessageData

\* the media directory: path -> what the file holds, by whom it was written
\* and whether it was written to its end
NoFiles == [path \in {} |-> None]

FileOpened(files, path, by) ==
    [q \in DOMAIN files \cup {path} |->
        IF q = path THEN [by |-> by, whole |-> FALSE] ELSE files[q]]

FileWritten(files, path, by) ==
    [q \in DOMAIN files \cup {path} |->
        IF q = path THEN [by |-> by, whole |-> TRUE] ELSE files[q]]

\* Path.unlink(missing_ok=True)
Unlinked(files, path) == [q \in DOMAIN files \ {path} |-> files[q]]

\* where download_safe writes the file of this handler's payload
WhLocal(w) == LocalPath(MediaFileName(WhFileData(w), w.payload.idMessage))

\* payload_to_msg has every answer it awaited: the Message is built and the
\* handler adds it and awaits the commit
ToCommit(w, lookup, dl) ==
    LET res == PayloadToMsg(w.payload, w.inst, WhIncoming(w), FALSE, lookup, dl)
    IN  IF res.kind = "raise" THEN Finished(w, "raised:" \o res.exc)
        ELSE [w EXCEPT !.pc = "commit", !.lookup = lookup, !.dl = dl, !.attempt = 0]

\* payload_to_msg up to its first await
StartP2M(w) ==
    IF w.payload.messageData.typeMessage \in _IGNORE_MTYPE
    THEN IF WhIncoming(w)
         THEN Finished(w, "raised:AttributeError")
         ELSE Finished(w, "ignored")
    ELSE [w EXCEPT !.pc = "conv_select"]

\* payload_to_msg from the conversation to its next await
AfterConv(w) ==
    LET mdata == w.payload.messageData
    IN  IF mdata.typeMessage \notin DOMAIN _EXT2FCLS THEN ToCommit(w, None, NoDownload)
        ELSE IF "fileMessageData" \notin DOMAIN mdata THEN Finished(w, "raised:KeyError")
        ELSE IF ~Truthy(Get(mdata.fileMessageData, "downloadUrl"))
        THEN [w EXCEPT !.pc = "dl_lookup"]
        ELSE [w EXCEPT !.pc = "dl_get", !.attempt = 0]

\* download_safe's except branch, after it has unlinked the file
DlFailed(w) ==
    IF w.attempt + 1 > retries
    THEN ToCommit(w, w.lookup, NoDownload)
    ELSE [w EXCEPT !.pc = "dl_get", !.attempt = w.attempt + 1]

\* green_webhook: the handler is looked up and runs to its first await
WhDeliver(h, p) ==
    /\ wh[h].pc = "idle"
    /\ delivered < MaxDeliveries
    /\ delivered' = delivered + 1
    /\ LET w == [IdleWh EXCEPT !.payload = p]
           fn == Get(_HANDLERS, p.typeWebhook)
       IN  wh' = [wh EXCEPT ![h] =
                 IF fn = None THEN Finished(w, "unhandled")
                 ELSE IF fn = "_handle_status" /\ Get(_STATUS2ENUM, Get(p, "status")) = None
                 THEN Finished(w, "unknown_status")
                 ELSE [w EXCEPT !.pc = "resolve"]]
    /\ UNCHANGED <<messages, conversations, fs, whFrame>>

\* await resolve_internal_id(...) answers
WhResolve(h) ==
    /\ wh[h].pc = "resolve"
    /\ LET w == wh[h]
           inst_db_id == resolve_internal_id(w.payload.instanceData.idInstance)
           fn == _HANDLERS[w.payload.typeWebhook]
           w1 == [w EXCEPT !.inst = inst_db_id]
       IN  wh' = [wh EXCEPT ![h] =
                 IF inst_db_id = NoId THEN Finished(w, "unknown_instance")
                 ELSE IF fn = "_handle_incoming" THEN StartP2M(w1)
                 ELSE IF fn = "_handle_outgoing" THEN [w1 EXCEPT !.pc = "out_exists"]
                 ELSE IF fn = "_handle_call" THEN [w1 EXCEPT !.pc = "call_select"]
                 ELSE [w1 EXCEPT !.pc = "st_select"]]
    /\ UNCHANGED <<messages, conversations, fs, delivered, whFrame>>

\* _handle_outgoing: the early duplicate check answers
WhOutExists(h) ==
    /\ wh[h].pc = "out_exists"
    /\ LET w == wh[h]
       IN  wh' = [wh EXCEPT ![h] =
                 IF SelectMessage(w.inst, w.payload.idMessage) # NoId
                 THEN Finished(w, "dup_skip")
                 ELSE StartP2M(w)]
    /\ UNCHANGED <<messages, conversations, fs, delivered, whFrame>>

\* get_or_create_conversation: the SELECT answers
WhConvSelect(h) ==
    /\ wh[h].pc = "conv_select"
    /\ LET w == wh[h]
       IN  wh' = [wh EXCEPT ![h] =
                 IF ConvKey(w.inst, w.payload.senderData.chatId) \in conversations
                 THEN AfterConv(w)
                 ELSE [w EXCEPT !.pc = "conv_commit"]]
    /\ UNCHANGED <<messages, conversations, fs, delivered, whFrame>>

\* get_or_create_conversation: the commit of the new Conversation
WhConvCommit(h) ==
    /\ wh[h].pc = "conv_commit"
    /\ LET w == wh[h]
           key == ConvKey(w.inst, w.payload.senderData.chatId)
       IN  IF key \in conversations
           THEN /\ wh' = [wh EXCEPT ![h] = Finished(w, "raised:IntegrityError")]
                /\ UNCHANGED conversations
           ELSE /\ conversations' = conversations \cup {key}
                /\ wh' = [wh EXCEPT ![h] = AfterConv(w)]
    /\ UNCHANGED <<messages, fs, delivered, whFrame>>

\* await cl.download_file(...) answers
WhDlLookup(h, ans) ==
    /\ wh[h].pc = "dl_lookup"
    /\ LET w == wh[h]
       IN  wh' = [wh EXCEPT ![h] =
                 IF ans = Raised THEN Finished(w, "raised:TransportError")
                 ELSE IF ans = None THEN ToCommit(w, None, NoDownload)
                 ELSE [w EXCEPT !.pc = "dl_get", !.lookup = ans, !.attempt = 0]]
    /\ UNCHANGED <<messages, conversations, fs, delivered, whFrame>>

\* download_safe: session.get(url) answers; on a good response the file is
\* opened "wb", otherwise the except branch unlinks it
WhDlGet(h, ok) ==
    /\ wh[h].pc = "dl_get"
    /\ LET w == wh[h]
       IN  IF ok
           THEN /\ fs' = FileOpened(fs, WhLocal(w), w.payload.idMessage)
                /\ wh' = [wh EXCEPT ![h] = [w EXCEPT !.pc = "dl_body"]]
           ELSE /\ fs' = Unlinked(fs, WhLocal(w))
                /\ wh' = [wh EXCEPT ![h] = DlFailed(w)]
    /\ UNCHANGED <<messages, conversations, delivered, whFrame>>

\* download_safe: the body has been read to its end (ok), or reading failed
\* or gave no bytes
WhDlBody(h, ok) ==
    /\ wh[h].pc = "dl_body"
    /\ LET w == wh[h]
       IN  IF ok
           THEN /\ fs' = FileWritten(fs, WhLocal(w), w.payload.idMessage)
                /\ wh' = [wh EXCEPT ![h] = ToCommit(w, w.lookup, Downloaded(1))]
           ELSE /\ fs' = Unlinked(fs, WhLocal(w))
                /\ wh' = [wh EXCEPT ![h] = DlFailed(w)]
    /\ UNCHANGED <<messages, conversations, delivered, whFrame>>

\* db.add(msg); await db.commit() in _handle_incoming and _handle_outgoing
WhCommit(h) ==
    /\ wh[h].pc = "commit"
    /\ LET w == wh[h]
           msg == PayloadToMsg(w.payload, w.inst, WhIncoming(w), FALSE, w.lookup, w.dl).msg
       IN  IF UqMessageWa(messages, msg.instance_id, msg.wa_message_id)
           THEN /\ wh' = [wh EXCEPT ![h] = Finished(w, "dup")]
                /\ UNCHANGED messages
           ELSE /\ messages' = Append(messages, msg)
                /\ wh' = [wh EXCEPT ![h] = Finished(w, "saved")]
    /\ UNCHANGED <<conversations, fs, delivered, whFrame>>

\* the order the provider reports the stages of a delivery in
StatusRank ==
    [sent |-> 1, delivered |-> 2, read |-> 3, api_error |-> 3]

\* _handle_status with an anti-regression guard: a status of a lower stage
\* than the stored one is not applied
WhStSelectNoRegression(h) ==
    /\ wh[h].pc = "st_select"
    /\ LET w == wh[h]
           new_st == _STATUS2ENUM[w.payload.status]
           id == SelectMessage(w.inst, w.payload.idMessage)
       IN  wh' = [wh EXCEPT ![h] =
                 IF id = NoId THEN Finished(w, "unknown_msg")
                 ELSE IF messages[id].status = new_st THEN Finished(w, "noop")
                 ELSE IF StatusRank[new_st] < StatusRank[messages[id].status]
                 THEN Finished(w, "noop")
                 ELSE [w EXCEPT !.pc = "st_commit", !.row = id]]
    /\ UNCHANGED <<messages, conversations, fs, delivered, whFrame>>

\* _handle_status without "if msg.status == new_st: return"
WhStSelectNoEqualityCheck(h) ==
    /\ wh[h].pc = "st_select"
    /\ LET w == wh[h]
           id == SelectMessage(w.inst, w.payload.idMessage)
       IN  wh' = [wh EXCEPT ![h] =
                 IF id = NoId THEN Finished(w, "unknown_msg")
                 ELSE [w EXCEPT !.pc = "st_commit", !.row = id]]
    /\ UNCHANGED <<messages, conversations, fs, delivered, whFrame>>

\* _handle_status: the SELECT of the message answers
WhStSelect(h) ==
    /\ wh[h].pc = "st_select"
    /\ LET w == wh[h]
           new_st == _STATUS2ENUM[w.payload.status]
           id == SelectMessage(w.inst, w.payload.idMessage)
       IN  wh' = [wh EXCEPT ![h] =
                 IF id = NoId THEN Finished(w, "unknown_msg")
                 ELSE IF messages[id].status = new_st THEN Finished(w, "noop")
                 ELSE [w EXCEPT !.pc = "st_commit", !.row = id]]
    /\ UNCHANGED <<messages, conversations, fs, delivered, whFrame>>

\* _handle_status: msg.status = new_st is committed
WhStCommit(h) ==
    /\ wh[h].pc = "st_commit"
    /\ LET w == wh[h]
           new_st == _STATUS2ENUM[w.payload.status]
       IN  /\ messages' = [messages EXCEPT ![w.row].status = new_st]
           /\ wh' = [wh EXCEPT ![h] =
                    IF new_st = "api_error" THEN [w EXCEPT !.pc = "st_notify"]
                    ELSE Finished(w, "updated")]
    /\ UNCHANGED <<conversations, fs, delivered, whFrame>>

\* _handle_status: notify_send_error commits the system Message
WhStNotify(h) ==
    /\ wh[h].pc = "st_notify"
    /\ LET w == wh[h]
           desc == OrElse(Get(w.payload, "description"), w.payload.status)
       IN  /\ messages' = Append(messages, SysMessage(messages[w.row], "API error (" \o desc \o ")"))
           /\ wh' = [wh EXCEPT ![h] = Finished(w, "notified")]
    /\ UNCHANGED <<conversations, fs, delivered, whFrame>>

\* ---- what the provider delivers ----
ChatA == "79001112233@c.us"

ChatB == "79004445566@c.us"

\* a message the dispatcher has sent before: the row the status webhooks
\* of this model are about
SentRow ==
    [ instance_id   |-> MapInstanceId,
      wa_message_id |-> "wa0",
      chat_id       |-> ChatA,
      chat_name     |-> "79001112233",
      from_app      |-> TRUE,
      direction     |-> "out",
      status        |-> "sent",
      message_type  |-> "text",
      text          |-> "hello",
      is_archived   |-> FALSE,
      tg_message_id |-> None,
      files         |-> << >> ]

StatusPayload(api_id, wa_id, status) ==
    [ typeWebhook  |-> "outgoingMessageStatus",
      idMessage    |-> wa_id,
      instanceData |-> [idInstance |-> api_id],
      status       |-> status ]

\* the provider's statuses; "deleted" is one _STATUS2ENUM does not know
ProviderStatuses == {"sent", "read", "failed", "noAccount", "notInGroup", "deleted"}

TextHi == [mtype |-> "textMessage", c |-> [text |-> "hi"]]

PollVote == [mtype |-> "pollUpdateMessage", c |-> [name |-> "Lunch?"]]

IngestPayloads ==
    { NativePayload(TextHi, MapApiId, wa, ChatB, inc) :
        wa \in {"wa1", "wa2"}, inc \in BOOLEAN }
    \cup { NativePayload(PollVote, MapApiId, "wa1", ChatB, inc) : inc \in BOOLEAN }
    \cup { StatusPayload(MapApiId, "wa0", st) : st \in ProviderStatuses }
    \cup { StatusPayload(MapApiId, "wa1", "read"),
           NativePayload(TextHi, UnknownApiId, "wa1", ChatB, TRUE),
           [typeWebhook |-> "deviceInfo", instanceData |-> [idInstance |-> MapApiId]] }

DbInit ==
    /\ messages = << SentRow >>
    /\ conversations = {ConvKey(MapInstanceId, ChatA)}
    /\ fs = NoFiles
    /\ wh = [h \in Handlers |-> IdleWh]
    /\ delivered = 0

IngestNext ==
    \/ \E h \in Handlers, p \in IngestPayloads : WhDeliver(h, p)
    \/ \E h \in Handlers : WhResolve(h)
    \/ \E h \in Handlers : WhOutExists(h)
    \/ \E h \in Handlers : WhConvSelect(h)
    \/ \E h \in Handlers : WhConvCommit(h)
    \/ \E h \in Handlers : WhCommit(h)
    \/ \E h \in Handlers : WhStSelect(h)
    \/ \E h \in Handlers : WhStCommit(h)
    \/ \E h \in Handlers : WhStNotify(h)

\* C1: for every (account, provider message id) with a non-null id there
\* is at most one Message row, in every reachable state.
C1_OneRowPerProviderId ==
    \A i, j \in 1..Len(messages) :
        (/\ i # j
         /\ messages[i].wa_message_id # None
         /\ messages[i].instance_id = messages[j].instance_id)
            => messages[i].wa_message_id # messages[j].wa_message_id

\* two handlers of the same incoming webhook raced to the commit: one saved
\* the row, the other met the unique constraint
C1_RaceDecidedByConstraint ==
    \E h1, h2 \in Handlers :
        /\ h1 # h2
        /\ wh[h1].out = "saved" /\ wh[h2].out = "dup"
        /\ wh[h1].payload = wh[h2].payload
        /\ wh[h1].payload.typeWebhook = _INCOMING

\* the row a handler waiting for its status SELECT will be given
StSelected(h) == SelectMessage(wh[h].inst, wh[h].payload.idMessage)

\* C5: a status webhook whose mapped status equals the stored one is a
\* no-op: the handler returns at once, no row is written, no system Message
\* is created.
C5_SameStatusIsNoOp ==
    [][ \A h \in Handlers :
          (/\ wh[h].pc = "st_select"
           /\ wh'[h] # wh[h]
           /\ StSelected(h) # NoId
           /\ messages[StSelected(h)].status = _STATUS2ENUM[wh[h].payload.status])
              => /\ messages' = messages
                 /\ wh'[h].pc = "idle"
                 /\ wh'[h].out = "noop" ]_vars

\* "failed" has set the message to api_error and raised the diagnostic;
\* "noAccount", mapped to the same value, then went through as a no-op
C5_RepeatUnderOtherName ==
    \E h1, h2 \in Handlers :
        /\ wh[h1].out = "notified" /\ wh[h1].payload.status = "failed"
        /\ wh[h2].out = "noop" /\ wh[h2].payload.status = "noAccount"
        /\ Len(messages) = 2
        /\ messages[1].status = "api_error"

\* the handlers that store a Message for their webhook
StoresMessage(p) ==
    Get(_HANDLERS, p.typeWebhook) \in {"_handle_incoming", "_handle_outgoing"}

\* C17: of two deliveries of the same webhook handled side by side, the one
\* that loses completes without raising: it skips the duplicate or its
\* uniqueness violation is swallowed, whether or not the chat already had a
\* Conversation, and the row the winner stored stays as it is.
C17_LoserCompletesQuietly ==
    \A h1, h2 \in Handlers :
        (/\ h1 # h2
         /\ wh[h1].payload = wh[h2].payload
         /\ StoresMessage(wh[h1].payload)
         /\ wh[h1].out = "saved"
         /\ wh[h2].pc = "idle" /\ wh[h2].out # "none")
            => wh[h2].out \in {"dup", "dup_skip"}

\* C23: the status handler has no anti-regression guard: a status webhook
\* whose mapped status differs from the stored one is always applied, and
\* its commit leaves the message with that webhook's status, whatever the
\* stored one was.
C23_DifferentStatusOverwrites ==
    [][ \A h \in Handlers :
          /\ (/\ wh[h].pc = "st_select"
               /\ wh'[h] # wh[h]
               /\ StSelected(h) # NoId
               /\ messages[StSelected(h)].status # _STATUS2ENUM[wh[h].payload.status])
                 => (wh'[h].pc = "st_commit" /\ wh'[h].row = StSelected(h))
          /\ (wh[h].pc = "st_commit" /\ wh'[h] # wh[h])
                 => messages'[wh[h].row].status = _STATUS2ENUM[wh[h].payload.status] ]_vars

\* "read" was processed, then "sent": the message is back at sent
C23_SentAfterRead ==
    \E h1, h2 \in Handlers :
        /\ wh[h1].out = "updated" /\ wh[h1].payload.status = "read"
        /\ wh[h2].out = "updated" /\ wh[h2].payload.status = "sent"
        /\ wh[h1].pc = "idle" /\ wh[h2].pc = "idle"
        /\ messages[1].wa_message_id = "wa0"
        /\ messages[1].status = "sent"

\* C22: an incomingMessageReceived webhook whose message type is in the
\* ignore set is dropped cleanly: no Message is stored and the handler
\* returns normally.
C22_IgnoredDroppedCleanly ==
    \A h \in Handlers :
        (/\ wh[h].pc = "idle" /\ wh[h].out # "none"
         /\ wh[h].payload.typeWebhook = _INCOMING
         /\ wh[h].payload.instanceData.idInstance \in DOMAIN Instances
         /\ wh[h].payload.messageData.typeMessage \in _IGNORE_MTYPE)
            => wh[h].out = "ignored"

(***************************************************************************)
(* webhook.py _handle_call: the incomingCall webhooks of one call, one     *)
(* step per await.                                                         *)
(***************************************************************************)
_CALL_STATUS_HUMAN ==
    [ offer    |-> "incoming call",
      pickUp   |-> "answered call",
      hangUp   |-> "dropped call",
      missed   |-> "missed call (cancelled by the caller)",
      declined |-> "missed call" ]

\* the text of the call Message for a status: its rendering, or the status
\* itself when it has none
CallText(status) == "<phone> " \o GetOr(_CALL_STATUS_HUMAN, status, status)

CallChatName(chat_id) ==
    IF AfterLast(chat_id, "@") = "g.us"
    THEN BeforeLast(chat_id, "@") \o " (group)"
    ELSE BeforeLast(chat_id, "@")

\* the Message of the offer stage
CallMessage(inst_db_id, wa_id, chat_id, status) ==
    [ instance_id   |-> inst_db_id,
      wa_message_id |-> wa_id,
      chat_id       |-> chat_id,
      chat_name     |-> CallChatName(chat_id),
      from_app      |-> FALSE,
      direction     |-> "inc",
      status        |-> "inc",
      message_type  |-> "call",
      text          |-> CallText(status),
      is_archived   |-> FALSE,
      tg_message_id |-> None,
      files         |-> << >> ]

CallPayload(api_id, wa_id, chat_id, status) ==
    [ typeWebhook  |-> "incomingCall",
      idMessage    |-> wa_id,
      instanceData |-> [idInstance |-> api_id],
      from         |-> chat_id,
      status       |-> status ]

\* a _handle_call that adds a Message for every delivery
CallAlwaysAdds(rows, w) ==
    Append(rows, CallMessage(w.inst, w.payload.idMessage, w.payload.from,
                             w.payload.status))

\* "if row is None: db.add(Message(...)) else: row.text = ..."
CallApplied(rows, w) ==
    IF w.row = NoId
    THEN Append(rows, CallMessage(w.inst, w.payload.idMessage, w.payload.from,
                                  w.payload.status))
    ELSE [rows EXCEPT ![w.row].text = CallText(w.payload.status)]

\* the SELECT of the row with this provider message id answers
WhCallSelect(h) ==
    /\ wh[h].pc = "call_select"
    /\ wh' = [wh EXCEPT ![h].row = SelectMessage(wh[h].inst, wh[h].payload.idMessage),
                        ![h].pc = "call_conv"]
    /\ UNCHANGED <<messages, conversations, fs, delivered, whFrame>>

\* get_or_create_conversation: the SELECT answers
WhCallConv(h) ==
    /\ wh[h].pc = "call_conv"
    /\ wh' = [wh EXCEPT ![h].pc =
                 IF ConvKey(wh[h].inst, wh[h].payload.from) \in conversations
                 THEN "call_commit" ELSE "call_conv_commit"]
    /\ UNCHANGED <<messages, conversations, fs, delivered, whFrame>>

\* get_or_create_conversation: the commit of the new Conversation
WhCallConvCommit(h) ==
    /\ wh[h].pc = "call_conv_commit"
    /\ LET w == wh[h]
           key == ConvKey(w.inst, w.payload.from)
       IN  IF key \in conversations
           THEN /\ wh' = [wh EXCEPT ![h] = Finished(w, "raised:IntegrityError")]
                /\ UNCHANGED conversations
           ELSE /\ conversations' = conversations \cup {key}
                /\ wh' = [wh EXCEPT ![h].pc = "call_commit"]
    /\ UNCHANGED <<messages, fs, delivered, whFrame>>

\* the commit of the new Message or of the new text; a uniqueness violation
\* is rolled back
WhCallCommit(h) ==
    /\ wh[h].pc = "call_commit"
    /\ LET w == wh[h]
           after == CallApplied(messages, w)
       IN  IF Len(after) > Len(messages)
              /\ UqMessageWa(messages, w.inst, w.payload.idMessage)
           THEN /\ wh' = [wh EXCEPT ![h] = Finished(w, "call_dup")]
                /\ UNCHANGED messages
           ELSE /\ messages' = after
                /\ wh' = [wh EXCEPT ![h] =
                         Finished(w, IF w.row = NoId THEN "call_saved" ELSE "call_updated")]
    /\ UNCHANGED <<conversations, fs, delivered, whFrame>>

CallStatuses == {"offer", "pickUp", "missed", "ringing"}

CallPayloads ==
    { CallPayload(MapApiId, "wa7", chat, st) : chat \in {ChatA, ChatB}, st \in CallStatuses }

CallNext ==
    \/ \E h \in Handlers, p \in CallPayloads : WhDeliver(h, p)
    \/ \E h \in Handlers : WhResolve(h)
    \/ \E h \in Handlers : WhCallSelect(h)
    \/ \E h \in Handlers : WhCallConv(h)
    \/ \E h \in Handlers : WhCallConvCommit(h)
    \/ \E h \in Handlers : WhCallCommit(h)

\* the rows of an account with a provider message id
RowsOf(inst_db_id, wa_id) ==
    { i \in 1..Len(messages) : /\ messages[i].instance_id = inst_db_id
                               /\ messages[i].wa_message_id = wa_id }

\* a delivery that has been processed leaves exactly one Message for its
\* call, of type call
OneCallRow ==
    \A h \in Handlers :
        (wh[h].pc = "idle" /\ wh[h].out \in {"call_saved", "call_updated", "call_dup"})
            => LET of_call == RowsOf(resolve_internal_id(wh[h].payload.instanceData.idInstance),
                                     wh[h].payload.idMessage)
               IN  /\ Cardinality(of_call) = 1
                   /\ \A i \in of_call : messages[i].message_type = "call"

\* a delivery that found the row only sets its text to the rendering of its
\* own status; one that found none adds the Message or changes nothing
CallStep ==
    \A h \in Handlers :
        (wh[h].pc = "call_commit" /\ wh'[h] # wh[h])
            => IF wh[h].row # NoId
               THEN messages' = [messages EXCEPT ![wh[h].row].text =
                                                    CallText(wh[h].payload.status)]
               ELSE \/ messages' = messages
                    \/ messages' = Append(messages,
                                          CallMessage(wh[h].inst, wh[h].payload.idMessage,
                                                      wh[h].payload.from,
                                                      wh[h].payload.status))

\* C26: for incomingCall webhooks with the same account and provider
\* message id exactly one call Message exists once they are processed: the
\* first creates it, every later one only sets that row's text to the
\* rendering of its own status, so the text is that of the last processed.
C26_OneCallMessage == [][CallStep /\ OneCallRow']_vars

\* the offer created the Message and the pick-up, processed after it, left
\* its text on the same row
C26_PickUpAfterOffer ==
    \E h1, h2 \in Handlers :
        /\ wh[h1].out = "call_saved" /\ wh[h1].payload.status = "offer"
        /\ wh[h2].out = "call_updated" /\ wh[h2].payload.status = "pickUp"
        /\ wh[h1].pc = "idle" /\ wh[h2].pc = "idle"
        /\ Len(messages) = 2
        /\ messages[2].message_type = "call"
        /\ messages[2].text = CallText("pickUp")

(***************************************************************************)
(* admin/utils/files.py: an upload from the admin panel (chat_send with    *)
(* one file), one step per await.                                          *)
(***************************************************************************)
MaxUploaders == 1

Uploaders == 1..MaxUploaders

Digits == << "0", "1", "2", "3", "4", "5", "6", "7", "8", "9" >>

RECURSIVE Str(_)
\* str(n) of a natural number
Str(n) == IF n < 10 THEN Digits[n + 1] ELSE Str(n \div 10) \o Digits[(n % 10) + 1]

\* Path(fname).stem and Path(fname).suffix
PathStem(fname) ==
    IF LastIndexOf(fname, ".") > 1 THEN SubSeq(fname, 1, LastIndexOf(fname, ".") - 1)
    ELSE fname

PathSuffix(fname) ==
    IF LastIndexOf(fname, ".") > 1
    THEN SubSeq(fname, LastIndexOf(fname, "."), Len(fname))
    ELSE ""

RECURSIVE NextFreeCandidate(_, _, _)
\* the while loop of _build_media_path from counter n on
NextFreeCandidate(fname, n, existing) ==
    LET candidate == LocalPath(PathStem(fname) \o "_" \o Str(n) \o PathSuffix(fname))
    IN  IF candidate \in existing THEN NextFreeCandidate(fname, n + 1, existing)
        ELSE candidate

_build_media_path(fname, existing) ==
    IF LocalPath(fname) \in existing THEN NextFreeCandidate(fname, 1, existing)
    ELSE LocalPath(fname)

_detect_class(mime) ==
    IF SubSeq(mime, 1, 6) = "image/" THEN "image"
    ELSE IF SubSeq(mime, 1, 6) = "video/" THEN "video"
    ELSE IF SubSeq(mime, 1, 6) = "audio/" THEN "audio"
    ELSE "other"

FileMsgType == [image |-> "file_image", video |-> "file_video",
                audio |-> "file_audio", other |-> "file_doc"]

\* the Message _save_one_message adds for an upload stored at dst
UploadRow(instance_id, chat_id, dst, mime, text) ==
    [ instance_id   |-> instance_id,
      wa_message_id |-> None,
      chat_id       |-> chat_id,
      chat_name     |-> BeforeLast(chat_id, "@"),
      from_app      |-> TRUE,
      direction     |-> "out",
      status        |-> "pending",
      message_type  |-> FileMsgType[_detect_class(mime)],
      text          |-> text,
      is_archived   |-> FALSE,
      tg_message_id |-> None,
      files         |-> << [ file_type |-> _detect_class(mime),
                             name      |-> AfterLast(dst, "/"),
                             mime      |-> mime,
                             file_path |-> dst,
                             file_url  |-> _public_url(dst),
                             size      |-> 1 ] >> ]

IdleUp == [pc |-> "idle", dst |-> None, out |-> "none"]

UploadNames == {"a.jpg", "a_1.jpg"}

\* chat_send up to aiofiles.open: the free path is chosen
UpBuild(u, fname) ==
    /\ up[u].pc = "idle"
    /\ up[u].out = "none"
    /\ up' = [up EXCEPT ![u] = [IdleUp EXCEPT !.pc = "open",
                                              !.dst = _build_media_path(fname, DOMAIN fs)]]
    /\ UNCHANGED <<dbVars, upFrame>>

\* the file is opened "wb" and the upload written into it
UpWrite(u) ==
    /\ up[u].pc = "open"
    /\ fs' = FileWritten(fs, up[u].dst, "upload" \o Str(u))
    /\ up' = [up EXCEPT ![u].pc = "conv_select"]
    /\ UNCHANGED <<messages, conversations, wh, delivered, upFrame>>

\* get_or_create_conversation: the SELECT answers
UpConvSelect(u) ==
    /\ up[u].pc = "conv_select"
    /\ up' = [up EXCEPT ![u].pc =
                IF ConvKey(MapInstanceId, ChatB) \in conversations
                THEN "flush" ELSE "conv_commit"]
    /\ UNCHANGED <<dbVars, upFrame>>

\* get_or_create_conversation: the commit of the new Conversation
UpConvCommit(u) ==
    /\ up[u].pc = "conv_commit"
    /\ IF ConvKey(MapInstanceId, ChatB) \in conversations
       THEN /\ up' = [up EXCEPT ![u] = [@ EXCEPT !.pc = "idle",
                                                 !.out = "raised:IntegrityError"]]
            /\ UNCHANGED conversations
       ELSE /\ conversations' = conversations \cup {ConvKey(MapInstanceId, ChatB)}
            /\ up' = [up EXCEPT ![u].pc = "flush"]
    /\ UNCHANGED <<messages, fs, wh, delivered, upFrame>>

\* db.add(db_msg); flush; chat_send's commit
UpFlush(u) ==
    /\ up[u].pc = "flush"
    /\ messages' = Append(messages,
                     UploadRow(MapInstanceId, ChatB, up[u].dst, "image/jpeg", None))
    /\ up' = [up EXCEPT ![u] = [@ EXCEPT !.pc = "idle", !.out = "saved"]]
    /\ UNCHANGED <<conversations, fs, wh, delivered, upFrame>>

\* ---- inbound media and uploads over one media directory ----
PhotoInline ==
    [mtype |-> "imageMessage",
     c |-> [downloadUrl |-> "https://cdn.example/m/b.png?sig=1", caption |-> "",
            fileName |-> "a.jpg", mimeType |-> "image/jpeg"]]

PhotoNoUrl ==
    [mtype |-> "imageMessage",
     c |-> [caption |-> "", fileName |-> "a.jpg", mimeType |-> "image/jpeg"]]

MediaPayloads ==
    { NativePayload(PhotoInline, MapApiId, wa, ChatB, TRUE) : wa \in {"wa1", "wa2"} }
    \cup { NativePayload(PhotoNoUrl, MapApiId, "wa1", ChatB, TRUE) }

UpIdle == up = [u \in Uploaders |-> IdleUp]

MediaNext ==
    \/ \E h \in Handlers, p \in MediaPayloads : WhDeliver(h, p)
    \/ \E h \in Handlers : WhResolve(h)
    \/ \E h \in Handlers : WhConvSelect(h)
    \/ \E h \in Handlers : WhConvCommit(h)
    \/ \E h \in Handlers, ans \in Lookups : WhDlLookup(h, ans)
    \/ \E h \in Handlers, ok \in BOOLEAN : WhDlGet(h, ok)
    \/ \E h \in Handlers, ok \in BOOLEAN : WhDlBody(h, ok)
    \/ \E h \in Handlers : WhCommit(h)
    \/ \E u \in Uploaders, fname \in UploadNames : UpBuild(u, fname)
    \/ \E u \in Uploaders : UpWrite(u)
    \/ \E u \in Uploaders : UpConvSelect(u)
    \/ \E u \in Uploaders : UpConvCommit(u)
    \/ \E u \in Uploaders : UpFlush(u)

\* the stored attachments: (message id, index in its files)
Attachments ==
    UNION { { <<i, k>> : k \in 1..Len(messages[i].files) } : i \in 1..Len(messages) }

StoredPath(a) == messages[a[1]].files[a[2]].file_path

\* C7: two stored attachments never share a stored path, whether they came
\* in through download_safe or through _build_media_path.
C7_DistinctStoredPaths ==
    \A a, b \in Attachments : a # b => StoredPath(a) # StoredPath(b)

\* the HTTP GETs download_safe has issued so far for the handler's URL,
\* the one in flight included
Attempts(h) ==
    IF wh[h].pc \in {"dl_get", "dl_body"} THEN wh[h].attempt + 1 ELSE 0

\* C21: download_safe issues at most 3 HTTP download attempts for one URL
\* before it gives up; a body of zero bytes counts as a failed attempt.
C21_AtMostThreeAttempts ==
    \A h \in Handlers : Attempts(h) <= 3


(***************************************************************************)
(* limiter.py and client.py: one endpoint category's limiter and the       *)
(* client operations that go through _json.  The clock counts half         *)
(* periods of the limiter.                                                 *)
(***************************************************************************)
\* self.period, in clock ticks
PeriodTicks == 2

\* timedelta(seconds=self.period * 1.5), in clock ticks
BlockTicks == (3 * PeriodTicks) \div 2

MaxTime == 6

MaxOps == 2

Ops == 1..MaxOps

\* _blocked_until = None
NoBlock == 0

\* the rates limits.py may configure, as fractions of a request per second
RpsChoices == { [num |-> 1, den |-> 2], [num |-> 1, den |-> 1], [num |-> 2, den |-> 1] }

\* SmartLimiter.__init__: the bucket holds max_rate tokens and, the period
\* being 1/rps (rps >= 1) or round(1/rps) (rps < 1), leaks half a token per
\* tick either way; level counts half tokens
SmartLimiter(rps) ==
    [ max_rate      |-> IF rps.num >= rps.den THEN rps.num \div rps.den ELSE 1,
      level         |-> 0,
      blocked_until |-> NoBlock ]

\* AsyncLimiter.has_capacity for one token
has_capacity(l) == l.level + 2 <= 2 * l.max_rate

\* SmartLimiter.wait_slot would let a caller through only at these times;
\* no operation of the client calls it
wait_slot_open(l, t) == t >= l.blocked_until /\ has_capacity(l)

\* SmartLimiter.block at time t
block(l, t) == [l EXCEPT !.blocked_until = t + BlockTicks]

HttpAnswers == {"200", "429", "500", "<transport error>"}

IdleOp == [pc |-> "idle", out |-> "none"]

\* a client operation enters _json: "async with limiter" draws a token at
\* once when the bucket has room, and waits otherwise
LimCall(o) ==
    /\ ops[o].pc = "idle"
    /\ IF has_capacity(lim)
       THEN /\ lim' = [lim EXCEPT !.level = @ + 2]
            /\ ops' = [ops EXCEPT ![o] = [IdleOp EXCEPT !.pc = "request"]]
       ELSE /\ ops' = [ops EXCEPT ![o] = [IdleOp EXCEPT !.pc = "acquire"]]
            /\ UNCHANGED lim
    /\ UNCHANGED <<now, limFrame>>

\* a waiting acquire() finds room in the bucket
LimAcquire(o) ==
    /\ ops[o].pc = "acquire"
    /\ has_capacity(lim)
    /\ lim' = [lim EXCEPT !.level = @ + 2]
    /\ ops' = [ops EXCEPT ![o].pc = "request"]
    /\ UNCHANGED <<now, limFrame>>

\* the HTTP request of _json answers
LimRespond(o, answer) ==
    /\ ops[o].pc = "request"
    /\ lim' = IF answer = "429" THEN block(lim, now) ELSE lim
    /\ ops' = [ops EXCEPT ![o] =
                [IdleOp EXCEPT !.out =
                    IF answer = "200" THEN "result"
                    ELSE IF answer = "429" THEN "raised:GreenAPIThrottleError"
                    ELSE IF answer = "500" THEN "raised:GreenAPIError"
                    ELSE "raised:TransportError"]]
    /\ UNCHANGED <<now, limFrame>>

\* half a period passes: the bucket leaks half a token
Tick ==
    /\ now < MaxTime
    /\ now' = now + 1
    /\ lim' = [lim EXCEPT !.level = IF @ > 0 THEN @ - 1 ELSE 0]
    /\ UNCHANGED <<ops, limFrame>>

LimInit ==
    /\ lim \in { SmartLimiter(rps) : rps \in RpsChoices }
    /\ now = 0
    /\ ops = [o \in Ops |-> IdleOp]

LimIdle ==
    /\ lim = SmartLimiter([num |-> 1, den |-> 1])
    /\ now = 0
    /\ ops = [o \in Ops |-> IdleOp]

LimNext ==
    \/ \E o \in Ops : LimCall(o)
    \/ \E o \in Ops : LimAcquire(o)
    \/ \E o \in Ops, answer \in HttpAnswers : LimRespond(o, answer)
    \/ Tick

\* C2: once block() has been called at time t, no acquisition of the limiter
\* by a client operation completes before t + 1.5 x period.
C2_BlockIsWaitedOut ==
    [][ \A o \in Ops :
          (ops[o].pc # "request" /\ ops'[o].pc = "request")
              => now >= lim.blocked_until ]_vars

(***************************************************************************)
(* admin_qr.py admin_history and history_downloader.py load_history: the   *)
(* backfill requests, the per-account lock and the jobs.                   *)
(***************************************************************************)
MaxRequests == 3

Requests == 1..MaxRequests

\* the accounts backfill is asked for
Accounts == {MapApiId, UnknownApiId}

\* range(30) of the wait_authorized loop
PollLimit == 30

IdleReq == [pc |-> "idle", api_id |-> MapApiId, wait |-> FALSE, status |-> "none"]

NoJob == [pc |-> "none", api_id |-> MapApiId, wait |-> FALSE, polls |-> 0]

Responded(rq, status) == [rq EXCEPT !.pc = "responded", !.status = status]

JobRunning(j) == j.pc \in {"scheduled", "state", "listing", "chats"}

\* admin_history waiting for a held lock instead of answering 409
LockSectionWaits(r, rq) ==
    IF history_lock[rq.api_id]
    THEN /\ req' = [req EXCEPT ![r] = [rq EXCEPT !.pc = "waiting"]]
         /\ UNCHANGED <<history_lock, jobs>>
    ELSE /\ history_lock' = [history_lock EXCEPT ![rq.api_id] = TRUE]
         /\ jobs' = [jobs EXCEPT ![r] = [NoJob EXCEPT !.pc = "scheduled",
                                                      !.api_id = rq.api_id,
                                                      !.wait = rq.wait]]
         /\ req' = [req EXCEPT ![r] = Responded(rq, "201")]

\* admin_history scheduling the task without looking at the lock
LockSectionNoLock(r, rq) ==
    /\ history_lock' = [history_lock EXCEPT ![rq.api_id] = TRUE]
    /\ jobs' = [jobs EXCEPT ![r] = [NoJob EXCEPT !.pc = "scheduled",
                                                 !.api_id = rq.api_id,
                                                 !.wait = rq.wait]]
    /\ req' = [req EXCEPT ![r] = Responded(rq, "201")]

\* admin_history from "single-instance lock" to its response: the lock is
\* looked up, a held lock answers 409, a free one is taken (acquire() of a
\* free asyncio.Lock returns without suspending), the task is created and
\* 201 answered
LockSection(r, rq) ==
    IF history_lock[rq.api_id]
    THEN /\ req' = [req EXCEPT ![r] = Responded(rq, "409")]
         /\ UNCHANGED <<history_lock, jobs>>
    ELSE /\ history_lock' = [history_lock EXCEPT ![rq.api_id] = TRUE]
         /\ jobs' = [jobs EXCEPT ![r] = [NoJob EXCEPT !.pc = "scheduled",
                                                      !.api_id = rq.api_id,
                                                      !.wait = rq.wait]]
         /\ req' = [req EXCEPT ![r] = Responded(rq, "201")]

\* a request arrives; it reads its body first when wait_authorized is not
\* in the query and there is a body
BfArrive(r, api_id, wait, has_body) ==
    /\ req[r].pc = "idle"
    /\ LET rq == [IdleReq EXCEPT !.api_id = api_id, !.wait = wait]
       IN  IF ~wait /\ has_body
           THEN /\ req' = [req EXCEPT ![r] = [rq EXCEPT !.pc = "body"]]
                /\ UNCHANGED <<history_lock, jobs>>
           ELSE LockSection(r, rq)
    /\ UNCHANGED bfFrame

\* await request.json() answers: invalid JSON, or a body with or without
\* wait_authorized
BfBody(r, valid, wait) ==
    /\ req[r].pc = "body"
    /\ IF ~valid
       THEN /\ req' = [req EXCEPT ![r] = Responded(req[r], "400")]
            /\ UNCHANGED <<history_lock, jobs>>
       ELSE LockSection(r, [req[r] EXCEPT !.wait = wait])
    /\ UNCHANGED bfFrame

\* _task with lock.release() at the end of its try body instead of in a
\* finally: the lock is released only when load_history returned
JobEndsReleasesOnReturn(r, pc) ==
    /\ jobs' = [jobs EXCEPT ![r].pc = pc, ![r].polls = 0]
    /\ history_lock' = [history_lock EXCEPT ![jobs[r].api_id] = (pc # "finished")]

\* _task's finally: lock.release()
JobEnds(r, pc) ==
    /\ jobs' = [jobs EXCEPT ![r].pc = pc, ![r].polls = 0]
    /\ history_lock' = [history_lock EXCEPT ![jobs[r].api_id] = FALSE]

\* the task starts: load_history sends its first notice and asks the state
JobStart(r) ==
    /\ jobs[r].pc = "scheduled"
    /\ jobs' = [jobs EXCEPT ![r].pc = "state"]
    /\ UNCHANGED <<history_lock, req, bfFrame>>

\* client.get_state() answers
JobState(r, answer) ==
    /\ jobs[r].pc = "state"
    /\ IF answer = Raised THEN JobEnds(r, "failed")
       ELSE IF answer = "authorized"
       THEN /\ jobs' = [jobs EXCEPT ![r].pc = "listing", ![r].polls = 0]
            /\ UNCHANGED history_lock
       ELSE IF jobs[r].wait /\ jobs[r].polls + 1 < PollLimit
       THEN /\ jobs' = [jobs EXCEPT ![r].polls = @ + 1]
            /\ UNCHANGED history_lock
       ELSE JobEnds(r, "failed")
    /\ UNCHANGED <<req, bfFrame>>

\* last_incoming / last_outgoing and the instance lookup answer
JobListing(r, answer) ==
    /\ jobs[r].pc = "listing"
    /\ IF answer = Raised THEN JobEnds(r, "failed")
       ELSE IF resolve_internal_id(jobs[r].api_id) = NoId THEN JobEnds(r, "finished")
       ELSE /\ jobs' = [jobs EXCEPT ![r].pc = "chats"]
            /\ UNCHANGED history_lock
    /\ UNCHANGED <<req, bfFrame>>

\* the chats have been worked through (a failing chat is logged and
\* skipped) and the closing notice sent
JobChats(r) ==
    /\ jobs[r].pc = "chats"
    /\ JobEnds(r, "finished")
    /\ UNCHANGED <<req, bfFrame>>

BfInit ==
    /\ history_lock = [a \in Accounts |-> FALSE]
    /\ req = [r \in Requests |-> IdleReq]
    /\ jobs = [r \in Requests |-> NoJob]

BfNext ==
    \/ \E r \in Requests, a \in Accounts, wait \in BOOLEAN, has_body \in BOOLEAN :
          BfArrive(r, a, wait, has_body)
    \/ \E r \in Requests, valid \in BOOLEAN, wait \in BOOLEAN : BfBody(r, valid, wait)
    \/ \E r \in Requests : JobStart(r)
    \/ \E r \in Requests, answer \in {"authorized", "notAuthorized", Raised} :
          JobState(r, answer)
    \/ \E r \in Requests, answer \in {"ok", Raised} : JobListing(r, answer)
    \/ \E r \in Requests : JobChats(r)

\* the request r passes the lock section in this step
PassesLockSection(r) ==
    /\ req[r].pc \in {"idle", "body"}
    /\ req'[r].pc # req[r].pc
    /\ req'[r].pc # "body"
    /\ req'[r].status # "400"

\* C3: a backfill request that finds the lock of its account held is
\* answered 409 in that same step: it never waits for the lock and
\* schedules no job.
C3_HeldLockAnswers409 ==
    [][ \A r \in Requests :
          (PassesLockSection(r) /\ history_lock[req'[r].api_id])
              => /\ req'[r].pc = "responded"
                 /\ req'[r].status = "409"
                 /\ jobs' = jobs
                 /\ history_lock' = history_lock ]_vars

\* a request was answered 409 while the job of an earlier one holds the lock
C3_RejectedWhileJobRuns ==
    \E r1, r2 \in Requests :
        /\ r1 # r2
        /\ req[r1].status = "201" /\ JobRunning(jobs[r1])
        /\ req[r2].status = "409" /\ req[r2].api_id = req[r1].api_id
        /\ jobs[r2] = NoJob

RunningJobs(api_id) == { r \in Requests : JobRunning(jobs[r]) /\ jobs[r].api_id = api_id }

\* C4: at most one load_history job per account is running at any time.
C4_OneJobPerAccount == \A a \in Accounts : Cardinality(RunningJobs(a)) <= 1

\* jobs of two accounts run side by side, and one of the accounts has had
\* an earlier job that is over
C4_AccountsSideBySide ==
    \E r1, r2, r3 \in Requests :
        /\ JobRunning(jobs[r1]) /\ JobRunning(jobs[r2])
        /\ jobs[r1].api_id # jobs[r2].api_id
        /\ jobs[r3].pc \in {"finished", "failed"}
        /\ jobs[r3].api_id = jobs[r1].api_id

\* C37: the backfill lock is released whenever its job ends (load_history
\* returns, gives up on an account that is not authorized, or raises): a
\* lock is held only while the job of its account runs, and a request that
\* reaches the lock section while no job of its account runs is accepted
\* with 201 and its job scheduled.
C37_LockReleasedWhenJobEnds ==
    [][ /\ \A a \in Accounts : history_lock'[a] => (RunningJobs(a) # {})'
        /\ \A r \in Requests :
              (PassesLockSection(r) /\ RunningJobs(req'[r].api_id) = {})
                  => /\ req'[r].status = "201"
                     /\ JobRunning(jobs'[r]) ]_vars

\* a job gave up or raised, a job of the same account returned, and a later
\* request for that account has been accepted and its job runs
C37_AcceptedAfterFailure ==
    \E r1, r2, r3 \in Requests :
        /\ jobs[r1].pc = "failed" /\ jobs[r2].pc = "finished"
        /\ req[r3].status = "201" /\ JobRunning(jobs[r3])
        /\ jobs[r1].api_id = jobs[r3].api_id
        /\ jobs[r2].api_id = jobs[r3].api_id

(***************************************************************************)
(* listeners/msg_out_listener.py: the handler of one msg_out notification, *)
(* one step per await.                                                     *)
(***************************************************************************)
MaxFiles == 2

_GREEN_ENDPOINT == "sendFileByUpload"

OutFile(k) ==
    [ file_type |-> "image",
      name      |-> "f" \o Str(k) \o ".jpg",
      mime      |-> "image/jpeg",
      file_path |-> LocalPath("f" \o Str(k) \o ".jpg"),
      file_url  |-> _public_url(LocalPath("f" \o Str(k) \o ".jpg")),
      size      |-> 1 ]

\* a Message the panel or the Telegram channel has queued, in the variants
\* the handler tells apart; create_message may be given a provider id
OutRows ==
    { [ instance_id   |-> MapInstanceId,
        wa_message_id |-> wa,
        chat_id       |-> ChatA,
        chat_name     |-> "79001112233",
        from_app      |-> fa,
        direction     |-> "out",
        status        |-> "pending",
        message_type  |-> IF n = 0 THEN "text" ELSE "file_image",
        text          |-> txt,
        is_archived   |-> ar,
        tg_message_id |-> tg,
        files         |-> [k \in 1..n |-> OutFile(k)] ] :
        n \in 0..MaxFiles, txt \in {None, "hi"}, fa \in BOOLEAN, ar \in BOOLEAN,
        tg \in {None, "tg1"}, wa \in {None, "wa4", "wa5"} }

IdleDsp ==
    [ pc |-> "notified", msg_id |-> 1, idx |-> 0, st |-> "pending", ok |-> FALSE,
      wa |-> None, fail |-> None, out |-> "none" ]

\* what a send call may answer: a response with or without idMessage, a
\* provider error, or any other exception
SendAnswers ==
    { [kind |-> "resp", idMessage |-> "wa5"], [kind |-> "resp", idMessage |-> None],
      [kind |-> "GreenAPIError", idMessage |-> None],
      [kind |-> "Exception", idMessage |-> None] }

Call(endpoint, chatId, fileName, body) ==
    [endpoint |-> endpoint, chatId |-> chatId, fileName |-> fileName, body |-> body]

\* _send_files without "caption = ''" after the first file
CaptionOnEveryFile(msg, k) == OrElse(msg.text, "")

\* the caption _send_files passes with the k-th file
UploadCaption(msg, k) == IF k = 1 THEN OrElse(msg.text, "") ELSE ""

\* handle without its "except Exception" branch: a provider error is marked
\* and reported, any other exception leaves the handler as it is
OnlyProviderErrorsCaught(d, st, reason) ==
    IF st = "api_error"
    THEN [d EXCEPT !.pc = "commit_status", !.st = st, !.ok = FALSE, !.fail = reason]
    ELSE [d EXCEPT !.pc = "done", !.out = "handled", !.fail = reason]

\* the handler has left its try block through an except branch:
\* _mark_status(st, ok=False) awaits its commit, notify_send_error follows
Failing(d, st, reason) ==
    [d EXCEPT !.pc = "commit_status", !.st = st, !.ok = FALSE, !.fail = reason]

\* _send_files reaches the k-th file: read_bytes, then send_file is awaited
IssueUpload(d, msg, k) ==
    IF msg.files[k].file_path \notin DOMAIN fs
    THEN /\ dsp' = Failing(d, "internal_error", "internal error")
         /\ UNCHANGED calls
    ELSE /\ dsp' = [d EXCEPT !.pc = "upload", !.idx = k]
         /\ calls' = Append(calls, Call(_GREEN_ENDPOINT, msg.chat_id, msg.files[k].name,
                                         UploadCaption(msg, k)))

\* _mark_wa_id without "if msg.wa_message_id: return ...": the returned id
\* is assigned whatever the message holds
AfterSendOverwrites(d, msg, resp) ==
    IF ~Truthy(resp.idMessage)
    THEN [d EXCEPT !.pc = "commit_status", !.st = "sent", !.ok = FALSE]
    ELSE [d EXCEPT !.pc = "commit_wa", !.wa = resp.idMessage]

\* _mark_wa_id and the call of _mark_status(sent) up to the next await
AfterSend(d, msg, resp) ==
    IF ~Truthy(resp.idMessage)
    THEN [d EXCEPT !.pc = "commit_status", !.st = "sent", !.ok = FALSE]
    ELSE IF Truthy(msg.wa_message_id)
    THEN [d EXCEPT !.pc = "commit_status", !.st = "sent",
                   !.ok = (msg.wa_message_id = resp.idMessage)]
    ELSE [d EXCEPT !.pc = "commit_wa", !.wa = resp.idMessage]

\* handle with "if msg.is_archived: return" only
DspLoadArchivedOnly ==
    /\ dsp.pc = "notified"
    /\ IF dsp.msg_id > Len(messages)
       THEN /\ dsp' = [dsp EXCEPT !.pc = "done", !.out = "not_found"]
            /\ UNCHANGED calls
       ELSE LET msg == messages[dsp.msg_id]
            IN  IF msg.is_archived
                THEN /\ dsp' = [dsp EXCEPT !.pc = "done", !.out = "skipped"]
                     /\ UNCHANGED calls
                ELSE IF Len(msg.files) > 0 THEN IssueUpload(dsp, msg, 1)
                ELSE /\ dsp' = [dsp EXCEPT !.pc = "send_text"]
                     /\ calls' = Append(calls, Call("sendMessage", msg.chat_id, None,
                                                     OrElse(msg.text, "")))
    /\ UNCHANGED <<messages, fs, outFrame>>

\* handle: the SELECT of the message answers
DspLoad ==
    /\ dsp.pc = "notified"
    /\ IF dsp.msg_id > Len(messages)
       THEN /\ dsp' = [dsp EXCEPT !.pc = "done", !.out = "not_found"]
            /\ UNCHANGED calls
       ELSE LET msg == messages[dsp.msg_id]
            IN  IF msg.is_archived \/ ~msg.from_app
                THEN /\ dsp' = [dsp EXCEPT !.pc = "done", !.out = "skipped"]
                     /\ UNCHANGED calls
                ELSE IF Len(msg.files) > 0 THEN IssueUpload(dsp, msg, 1)
                ELSE /\ dsp' = [dsp EXCEPT !.pc = "send_text"]
                     /\ calls' = Append(calls, Call("sendMessage", msg.chat_id, None,
                                                     OrElse(msg.text, "")))
    /\ UNCHANGED <<messages, fs, outFrame>>

\* client.send_file(...) answers
DspUploadAnswer(ans) ==
    /\ dsp.pc = "upload"
    /\ LET msg == messages[dsp.msg_id]
       IN  IF ans.kind = "GreenAPIError"
           THEN /\ dsp' = Failing(dsp, "api_error", "API error")
                /\ UNCHANGED calls
           ELSE IF ans.kind = "Exception"
           THEN /\ dsp' = Failing(dsp, "internal_error", "internal error")
                /\ UNCHANGED calls
           ELSE IF dsp.idx < Len(msg.files) THEN IssueUpload(dsp, msg, dsp.idx + 1)
           ELSE /\ dsp' = AfterSend(dsp, msg, ans)
                /\ UNCHANGED calls
    /\ UNCHANGED <<messages, fs, outFrame>>

\* client.send_message(...) answers
DspTextAnswer(ans) ==
    /\ dsp.pc = "send_text"
    /\ dsp' = IF ans.kind = "GreenAPIError" THEN Failing(dsp, "api_error", "API error")
              ELSE IF ans.kind = "Exception"
              THEN Failing(dsp, "internal_error", "internal error")
              ELSE AfterSend(dsp, messages[dsp.msg_id], ans)
    /\ UNCHANGED <<messages, fs, calls, outFrame>>

\* _mark_wa_id: the commit of msg.wa_message_id; a uniqueness violation
\* lands in the handler's except Exception branch
DspCommitWa ==
    /\ dsp.pc = "commit_wa"
    /\ LET msg == messages[dsp.msg_id]
       IN  IF UqMessageWa(messages, msg.instance_id, dsp.wa)
           THEN /\ dsp' = Failing(dsp, "internal_error", "internal error")
                /\ UNCHANGED messages
           ELSE /\ messages' = [messages EXCEPT ![dsp.msg_id].wa_message_id = dsp.wa]
                /\ dsp' = [dsp EXCEPT !.pc = "commit_status", !.st = "sent", !.ok = TRUE]
    /\ UNCHANGED <<fs, calls, outFrame>>

\* _mark_status: the commit of msg.status; the reaction is asked for when
\* the message came from the Telegram channel
DspCommitStatus ==
    /\ dsp.pc = "commit_status"
    /\ messages' = [messages EXCEPT ![dsp.msg_id].status = dsp.st]
    /\ IF messages[dsp.msg_id].tg_message_id # None
       THEN /\ dsp' = [dsp EXCEPT !.pc = "react"]
            /\ calls' = Append(calls, Call("set_message_reaction", "<channel>", None,
                                            IF dsp.ok THEN "thumbs up" ELSE "angry"))
       ELSE /\ dsp' = IF dsp.fail # None THEN [dsp EXCEPT !.pc = "notify"]
                      ELSE [dsp EXCEPT !.pc = "done", !.out = "handled"]
            /\ UNCHANGED calls
    /\ UNCHANGED <<fs, outFrame>>

\* bot.set_message_reaction(...) answers or raises; either way it is over
DspReact ==
    /\ dsp.pc = "react"
    /\ dsp' = IF dsp.fail # None THEN [dsp EXCEPT !.pc = "notify"]
              ELSE [dsp EXCEPT !.pc = "done", !.out = "handled"]
    /\ UNCHANGED <<messages, fs, calls, outFrame>>

\* notify_send_error commits the system Message
DspNotify ==
    /\ dsp.pc = "notify"
    /\ messages' = Append(messages, SysMessage(messages[dsp.msg_id], dsp.fail))
    /\ dsp' = [dsp EXCEPT !.pc = "done", !.out = "handled"]
    /\ UNCHANGED <<fs, calls, outFrame>>

OutNext ==
    \/ DspLoad
    \/ \E ans \in SendAnswers : DspUploadAnswer(ans)
    \/ \E ans \in SendAnswers : DspTextAnswer(ans)
    \/ DspCommitWa
    \/ DspCommitStatus
    \/ DspReact
    \/ DspNotify

\* the message the notification is about
OutMsg == messages[dsp.msg_id]

\* the send calls issued to the provider so far
ProviderCalls ==
    SelectSeq(calls, LAMBDA c : c.endpoint \in {_GREEN_ENDPOINT, "sendMessage"})

\* one upload per attachment, in attachment order, the text with the first
ExpectedUploads(msg) ==
    [k \in 1..Len(msg.files) |->
        Call(_GREEN_ENDPOINT, msg.chat_id, msg.files[k].name,
             IF k = 1 THEN OrElse(msg.text, "") ELSE "")]

IsPrefix(s, t) == Len(s) <= Len(t) /\ s = SubSeq(t, 1, Len(s))

\* C10 as stated: for an outbound message with n >= 1 attachments the
\* dispatcher issues exactly n upload calls in attachment order, the first
\* with the text as caption, the later ones with an empty caption, and no
\* text-send call.
C10_ExactlyNUploads ==
    (dsp.pc = "done" /\ dsp.out # "not_found" /\ Len(OutMsg.files) >= 1)
        => ProviderCalls = ExpectedUploads(OutMsg)

\* C10 amended: for an outbound message with n >= 1 attachments the
\* dispatcher's provider calls are, in order, the uploads of the first
\* attachments (the first with the text as caption, the later ones with an
\* empty caption) and never a text-send; it issues none when the message is
\* archived or not admin-originated, goes on to the next file only after
\* the upload before it has returned, and has issued all n when it ends
\* without a failure.
C10_UploadsInOrderUntilFailure ==
    (dsp.msg_id <= Len(messages) /\ Len(OutMsg.files) >= 1)
        => /\ IsPrefix(ProviderCalls, ExpectedUploads(OutMsg))
           /\ (OutMsg.is_archived \/ ~OutMsg.from_app) => ProviderCalls = << >>
           /\ (dsp.pc = "done" /\ dsp.out = "handled" /\ dsp.fail = None)
                 => ProviderCalls = ExpectedUploads(OutMsg)
           /\ (dsp.pc = "upload") => Len(ProviderCalls) = dsp.idx

\* a message with two attachments and a text has been sent: two uploads,
\* the text with the first
C10_TwoFilesSent ==
    /\ dsp.pc = "done" /\ dsp.out = "handled" /\ dsp.fail = None
    /\ Len(OutMsg.files) = 2 /\ OutMsg.text = "hi"
    /\ Len(ProviderCalls) = 2
    /\ ProviderCalls[1].body = "hi" /\ ProviderCalls[2].body = ""

C24_SkippedLeavesNoTrace ==
    (/\ dsp.msg_id <= Len(messages)
     /\ (OutMsg.is_archived \/ ~OutMsg.from_app))
        => /\ calls = << >>
           /\ Len(messages) = 1
           /\ OutMsg \in OutRows
           /\ dsp.pc \in {"notified", "done"}
           /\ (dsp.pc = "done") => (dsp.out = "skipped")

\* a message from the Telegram channel with two files that is not
\* admin-originated has been loaded and left alone
C24_PhoneMessageSkipped ==
    /\ dsp.pc = "done" /\ dsp.out = "skipped"
    /\ ~OutMsg.is_archived /\ ~OutMsg.from_app
    /\ OutMsg.tg_message_id # None
    /\ Len(OutMsg.files) = 2

\* C25: the dispatcher never overwrites a provider message id that is set:
\* the id a send call returned is assigned only to a message whose id is
\* null, and a stored id stays as it is whether the returned one matches it
\* or not.
C25_StoredIdKept ==
    [][ \A i \in 1..Len(messages) :
          /\ (messages[i].wa_message_id # None)
                 => (messages'[i].wa_message_id = messages[i].wa_message_id)
          /\ (messages[i].wa_message_id = None /\ messages'[i].wa_message_id # None)
                 => (/\ dsp.pc = "commit_wa" /\ dsp.msg_id = i
                     /\ messages'[i].wa_message_id = dsp.wa) ]_vars

\* a message queued with the id wa4 was sent, the provider returned wa5:
\* the message is sent, still with wa4, and acknowledged as not matching
C25_MismatchLeftAlone ==
    /\ dsp.pc = "done" /\ dsp.out = "handled" /\ dsp.fail = None
    /\ OutMsg.wa_message_id = "wa4"
    /\ OutMsg.status = "sent"
    /\ ~dsp.ok
    /\ Len(ProviderCalls) = 1

\* every file of OutRows is in the media directory
AllOutFiles ==
    [path \in { OutFile(k).file_path : k \in 1..MaxFiles } |->
        [by |-> "upload1", whole |-> TRUE]]

OutIdle ==
    /\ dsp = IdleDsp
    /\ calls = << >>

\* one queued Message; its files are there, or the first has gone; the
\* notification is about it, or about a row that is not there any more
OutInit ==
    /\ messages \in { << row >> : row \in OutRows }
    /\ conversations = {ConvKey(MapInstanceId, ChatA)}
    /\ fs \in {AllOutFiles, Unlinked(AllOutFiles, OutFile(1).file_path)}
    /\ wh = [h \in Handlers |-> IdleWh]
    /\ delivered = 0
    /\ dsp \in {IdleDsp, [IdleDsp EXCEPT !.msg_id = 2]}
    /\ calls = << >>

(***************************************************************************)
(* client.py GreenAPIClient: the public operations, _json and get_qr.      *)
(***************************************************************************)
MaxCallers == 2

\* each caller makes one call; caller 1 is the application, which may call
\* any operation, the others are the pollers of the QR page
Callers == 1..MaxCallers

Application == CHOOSE c \in Callers : \A d \in Callers : c <= d

\* the endpoint each public operation hands to _json
Endpoint ==
    [ get_qr           |-> "qr",
      get_settings     |-> "getSettings",
      get_state        |-> "getStateInstance",
      logout           |-> "logout",
      set_settings     |-> "setSettings",
      last_incoming    |-> "lastIncomingMessages",
      last_outgoing    |-> "lastOutgoingMessages",
      get_chat_history |-> "getChatHistory",
      download_file    |-> "downloadFile",
      send_message     |-> "sendMessage",
      send_file        |-> "sendFileByUpload" ]

ClientOps == DOMAIN Endpoint

\* limits.py DEFAULT_RPS: one request per second
DEFAULT_RPS == [num |-> 1, den |-> 1]

\* "now - ts < 1" of get_qr: one second, in ticks of half a second
QrWindowTicks == 2

\* loop.time() is a monotonic clock that is past its first second
StartClock == 2

MaxClock == 5

\* _get_limiter: the limiter of the endpoint's first path segment, made on
\* first use (no endpoint of the client has a second segment)
_get_limiter(limiters, base) ==
    IF base \in DOMAIN limiters THEN limiters
    ELSE [b \in DOMAIN limiters \cup {base} |->
            IF b = base THEN SmartLimiter(DEFAULT_RPS) ELSE limiters[b]]

\* what the provider may answer
QrTypes == {"qrCode", "alreadyLogged", "timeout", "weird"}

JsonReply(type, url) ==
    [kind |-> "http", status |-> 200, json |-> TRUE, type |-> type, text |-> url]

ErrorReply(status, text) ==
    [kind |-> "http", status |-> status, json |-> FALSE, type |-> "", text |-> text]

TransportError == [kind |-> "transport", status |-> 0, json |-> FALSE, type |-> "", text |-> ""]

NoReply == [kind |-> "none", status |-> 0, json |-> FALSE, type |-> "", text |-> ""]

ErrorReplies ==
    { ErrorReply(429, "slow down"), ErrorReply(400, "bad"),
      ErrorReply(200, "<html>"), TransportError }

Replies(op) ==
    ErrorReplies \cup
        (IF op = "get_qr" THEN { JsonReply(t, "") : t \in QrTypes }
         ELSE IF op = "download_file"
              THEN { JsonReply("", u) : u \in {"", "https://cdn/a.jpg"} }
              ELSE { JsonReply("", "") })

\* results of a call
Returned(what, value, message) ==
    [kind |-> "returned", what |-> what, value |-> value, message |-> message]

RaisedExc(exc, message) ==
    [kind |-> "raised", what |-> exc, value |-> "", message |-> message]

NoResult == [kind |-> "none", what |-> "", value |-> "", message |-> ""]

\* ClassIgnores429 stands for a _json without the 429 test
ClassIgnores429(r) ==
    IF r.kind = "transport" THEN "transport"
    ELSE IF r.status >= 400 THEN "provider"
    ELSE IF r.json THEN "decoded"
    ELSE "undecodable"

\* _json, lines 180-190: how the response is classified
JsonClass(r) ==
    IF r.kind = "transport" THEN "transport"
    ELSE IF r.status = 429 THEN "throttle"
    ELSE IF r.status >= 400 THEN "provider"
    ELSE IF r.json THEN "decoded"
    ELSE "undecodable"

\* what _json returns or raises
JsonResult(r) ==
    LET cls == JsonClass(r) IN
    IF cls = "throttle" THEN RaisedExc("GreenAPIThrottleError", "429 Too Many Requests")
    ELSE IF cls = "provider"
         THEN RaisedExc("GreenAPIError", "GREEN-API " \o Str(r.status) \o ": " \o r.text)
    ELSE IF cls = "transport" THEN RaisedExc("aiohttp.ClientError", "")
    ELSE IF cls = "undecodable" THEN RaisedExc("aiohttp.ContentTypeError", "")
    ELSE Returned("body", "", "")

\* exceptions.py: GreenAPIThrottleError is a GreenAPIError
IsGreenAPIError(res) ==
    res.kind = "raised" /\ res.what \in {"GreenAPIError", "GreenAPIThrottleError"}

\* get_qr, lines 76-95: the payload made of _json's outcome
QrPayload(r) ==
    LET j == JsonResult(r) IN
    IF j.kind = "raised"
    THEN IF j.what = "GreenAPIThrottleError"
         THEN Returned("payload", "error", "too many requests (429)")
         ELSE IF j.what = "GreenAPIError"
              THEN Returned("payload", "error", j.message)
              ELSE j
    ELSE IF r.type = "qrCode" THEN Returned("payload", "qr", "data:image/png;base64,")
    ELSE IF r.type = "alreadyLogged" THEN Returned("payload", "already_logged", "")
    ELSE IF r.type = "timeout" THEN Returned("payload", "timeout", "")
    ELSE Returned("payload", "error", "unknown")

\* what each public operation makes of _json's outcome
OpResult(op, r) ==
    LET j == JsonResult(r) IN
    IF op = "get_qr" THEN QrPayload(r)
    ELSE IF op = "download_file"
         THEN IF IsGreenAPIError(j) THEN Returned("None", None, "")
              ELSE IF j.kind = "raised" THEN j
              ELSE IF r.text = "" THEN Returned("None", None, "")
              ELSE Returned("downloadUrl", r.text, "")
    ELSE IF j.kind = "raised" THEN j
    ELSE IF op = "get_state" THEN Returned("body.stateInstance", "", "")
    ELSE IF op = "logout" THEN Returned("bool(isLogout)", "", "")
    ELSE IF op = "set_settings" THEN Returned("bool(saveSettings)", "", "")
    ELSE j

\* the default of self._qr_cache.get(cache_key, (None, 0))
NoCache == [payload |-> Returned("None", None, ""), ts |-> 0]

QrCached == GetOr(_qr_cache, "qr", NoCache)

IdleCop ==
    [ pc |-> "idle", op |-> "none", at |-> 0, issued |-> FALSE, reply |-> NoReply,
      jout |-> NoResult, out |-> NoResult, blocks |-> 0 ]

\* a call that has just been made
NewCall(op) == [IdleCop EXCEPT !.op = op]

\* _json up to its request: "async with limiter" draws a token at once when
\* the bucket has room and waits otherwise
EnterJson(c, rec) ==
    LET e  == Endpoint[rec.op]
        ls == _get_limiter(_limiters, e)
    IN  IF has_capacity(ls[e])
        THEN /\ _limiters' = [ls EXCEPT ![e].level = @ + 2]
             /\ cop' = [cop EXCEPT ![c] = [rec EXCEPT !.pc = "request", !.issued = TRUE]]
        ELSE /\ _limiters' = ls
             /\ cop' = [cop EXCEPT ![c] = [rec EXCEPT !.pc = "acquire"]]

\* get_qr inside its lock, lines 72-77: the cache is read again against the
\* time the call was made, and the request goes out if it is still stale
QrLocked(c, rec) ==
    IF rec.at - QrCached.ts < QrWindowTicks
    THEN /\ cop' = [cop EXCEPT ![c] = [rec EXCEPT !.pc = "done", !.out = QrCached.payload]]
         /\ _qr_lock' = [_qr_lock EXCEPT !.locked = FALSE]
         /\ UNCHANGED _limiters
    ELSE /\ EnterJson(c, rec)
         /\ _qr_lock' = [_qr_lock EXCEPT !.locked = TRUE]

\* one of the operations other than get_qr is called
ClCall(c, op) ==
    /\ cop[c].pc = "idle"
    /\ c = Application
    /\ op # "get_qr"
    /\ EnterJson(c, NewCall(op))
    /\ UNCHANGED <<_qr_cache, _qr_lock, loop_time, clFrame>>

\* get_qr is called, lines 64-71: a fresh cache entry is returned at once;
\* otherwise the caller takes the lock, or queues for it when it is held
ClGetQr(c) ==
    /\ cop[c].pc = "idle"
    /\ LET rec == [NewCall("get_qr") EXCEPT !.at = loop_time] IN
       IF rec.at - QrCached.ts < QrWindowTicks
       THEN /\ cop' = [cop EXCEPT ![c] = [rec EXCEPT !.pc = "done", !.out = QrCached.payload]]
            /\ UNCHANGED <<_limiters, _qr_lock>>
       ELSE IF ~_qr_lock.locked /\ _qr_lock.waiters = << >>
            THEN QrLocked(c, rec)
            ELSE /\ cop' = [cop EXCEPT ![c] = [rec EXCEPT !.pc = "qr_lock"]]
                 /\ _qr_lock' = [_qr_lock EXCEPT !.waiters = Append(@, c)]
                 /\ UNCHANGED _limiters
    /\ UNCHANGED <<_qr_cache, loop_time, clFrame>>

\* the lock has been released and its first waiter takes it
ClQrLock(c) ==
    /\ cop[c].pc = "qr_lock"
    /\ ~_qr_lock.locked
    /\ _qr_lock.waiters # << >> /\ Head(_qr_lock.waiters) = c
    /\ LET rest == [_qr_lock EXCEPT !.waiters = Tail(@)] IN
       IF cop[c].at - QrCached.ts < QrWindowTicks
       THEN /\ cop' = [cop EXCEPT ![c] = [@ EXCEPT !.pc = "done", !.out = QrCached.payload]]
            /\ _qr_lock' = [rest EXCEPT !.locked = FALSE]
            /\ UNCHANGED _limiters
       ELSE /\ EnterJson(c, cop[c])
            /\ _qr_lock' = [rest EXCEPT !.locked = TRUE]
    /\ UNCHANGED <<_qr_cache, loop_time, clFrame>>

\* a waiting acquire() finds room in the bucket
ClAcquire(c) ==
    /\ cop[c].pc = "acquire"
    /\ LET e == Endpoint[cop[c].op] IN
       /\ has_capacity(_limiters[e])
       /\ _limiters' = [_limiters EXCEPT ![e].level = @ + 2]
    /\ cop' = [cop EXCEPT ![c].pc = "request", ![c].issued = TRUE]
    /\ UNCHANGED <<_qr_cache, _qr_lock, loop_time, clFrame>>

\* the request of _json is answered, or fails in transport: _json blocks the
\* limiter on a 429, get_qr blocks it once more, stores a payload it has
\* built and releases its lock; the operation returns or raises
ClReply(c, r) ==
    /\ cop[c].pc = "request"
    /\ r \in Replies(cop[c].op)
    /\ LET op  == cop[c].op
           e   == Endpoint[op]
           cls == JsonClass(r)
           nb  == IF cls # "throttle" THEN 0 ELSE IF op = "get_qr" THEN 2 ELSE 1
       IN  /\ _limiters' = IF nb > 0
                           THEN [_limiters EXCEPT ![e] = block(@, loop_time)]
                           ELSE _limiters
           /\ cop' = [cop EXCEPT ![c] =
                        [@ EXCEPT !.pc = "done", !.reply = r, !.jout = JsonResult(r),
                                  !.out = OpResult(op, r), !.blocks = nb]]
           /\ _qr_cache' = IF op = "get_qr" /\ cls = "decoded"
                           THEN [k \in {"qr"} |-> [payload |-> QrPayload(r), ts |-> cop[c].at]]
                           ELSE _qr_cache
           /\ _qr_lock' = IF op = "get_qr"
                          THEN [_qr_lock EXCEPT !.locked = FALSE]
                          ELSE _qr_lock
    /\ UNCHANGED <<loop_time, clFrame>>

\* half a second passes: every bucket leaks half a token
ClTick ==
    /\ loop_time < MaxClock
    /\ loop_time' = loop_time + 1
    /\ _limiters' = [e \in DOMAIN _limiters |->
                        [_limiters[e] EXCEPT !.level = IF @ > 0 THEN @ - 1 ELSE 0]]
    /\ UNCHANGED <<_qr_cache, _qr_lock, cop, clFrame>>

ClInit ==
    /\ _limiters = [e \in {} |-> SmartLimiter(DEFAULT_RPS)]
    /\ _qr_cache = [k \in {} |-> NoCache]
    /\ _qr_lock = [locked |-> FALSE, waiters |-> << >>]
    /\ cop = [c \in Callers |-> IdleCop]
    /\ loop_time = StartClock

ClNext ==
    \/ \E c \in Callers, op \in ClientOps : ClCall(c, op)
    \/ \E c \in Callers : ClGetQr(c)
    \/ \E c \in Callers : ClQrLock(c)
    \/ \E c \in Callers : ClAcquire(c)
    \/ \E c \in Callers, r \in ErrorReplies \cup UNION { Replies(op) : op \in ClientOps } :
            ClReply(c, r)
    \/ ClTick

\* the calls that have ended with an HTTP response
Answered(c) == cop[c].pc = "done" /\ cop[c].reply.kind = "http"

\* the limiter of the call's endpoint
LimiterOf(c) == _limiters[Endpoint[cop[c].op]]

\* C11 as stated: every operation ends the same way on the same response:
\* on 429 its limiter is blocked and it raises the throttle error, on
\* another status >= 400 it raises the provider error with the response
\* body, otherwise it returns what it decoded and the limiter is not blocked.
C11_EveryOperationRaises ==
    \A c \in Callers :
        Answered(c) =>
            LET r == cop[c].reply IN
            /\ r.status = 429 =>
                  /\ cop[c].out.kind = "raised"
                  /\ cop[c].out.what = "GreenAPIThrottleError"
                  /\ cop[c].blocks >= 1
                  /\ LimiterOf(c).blocked_until # NoBlock
            /\ (r.status >= 400 /\ r.status # 429) =>
                  /\ cop[c].out = RaisedExc("GreenAPIError",
                                       "GREEN-API " \o Str(r.status) \o ": " \o r.text)
                  /\ cop[c].blocks = 0
            /\ (r.status < 400 /\ r.json) =>
                  /\ cop[c].out.kind = "returned"
                  /\ cop[c].blocks = 0

\* C11 amended: the request of every operation is classified by _json in
\* the same way: on 429 the endpoint's limiter is blocked and the throttle
\* error raised, on another status >= 400 the provider error is raised with
\* the response body, otherwise the decoded body is returned and the
\* limiter is not blocked. Every operation passes these errors on to its
\* caller except get_qr, which returns an error payload for both, and
\* download_file, which returns null for them.
C11_JsonClassifiesAlike ==
    \A c \in Callers :
        Answered(c) =>
            LET r   == cop[c].reply
                op  == cop[c].op
                own == op \in {"get_qr", "download_file"}
            IN
            /\ r.status = 429 =>
                  /\ cop[c].jout = RaisedExc("GreenAPIThrottleError", "429 Too Many Requests")
                  /\ cop[c].blocks >= 1
                  /\ LimiterOf(c).blocked_until # NoBlock
                  /\ \A e \in DOMAIN _limiters \ {Endpoint[op]} :
                        \/ _limiters[e].blocked_until = NoBlock
                        \/ \E d \in Callers \ {c} :
                              Answered(d) /\ Endpoint[cop[d].op] = e /\ cop[d].reply.status = 429
            /\ (r.status >= 400 /\ r.status # 429) =>
                  /\ cop[c].jout = RaisedExc("GreenAPIError",
                                        "GREEN-API " \o Str(r.status) \o ": " \o r.text)
                  /\ cop[c].blocks = 0
            /\ (r.status < 400 /\ r.json) =>
                  /\ cop[c].jout = Returned("body", "", "")
                  /\ cop[c].out.kind = "returned"
                  /\ cop[c].blocks = 0
            /\ (cop[c].jout.kind = "raised" /\ ~own) => cop[c].out = cop[c].jout
            /\ (r.status >= 400 /\ op = "get_qr") =>
                  /\ cop[c].out.kind = "returned"
                  /\ cop[c].out.value = "error"
                  /\ cop[c].out.message =
                        (IF r.status = 429 THEN "too many requests (429)"
                         ELSE cop[c].jout.message)
            /\ (r.status >= 400 /\ r.status # 429 /\ op = "download_file") =>
                  cop[c].out = Returned("None", None, "")
            /\ (r.status = 429 /\ op = "download_file") =>
                  cop[c].out \in {Returned("None", None, ""), cop[c].jout}

\* get_state was answered 429 and raised the throttle error with its
\* limiter blocked, while a get_qr answered 400 returned an error payload
C11_ThrottledAndSwallowed ==
    \E c, d \in Callers :
        /\ Answered(c) /\ cop[c].op = "get_state" /\ cop[c].reply.status = 429
        /\ cop[c].out.what = "GreenAPIThrottleError"
        /\ LimiterOf(c).blocked_until = loop_time + BlockTicks
        /\ Answered(d) /\ cop[d].op = "get_qr" /\ cop[d].reply.status = 400
        /\ cop[d].out.value = "error"

\* C12: of the get_qr calls made within one second of each other, at most
\* one issues an upstream request.
C12_OneUpstreamPerWindow ==
    \A c, d \in Callers :
        (/\ c # d
         /\ cop[c].op = "get_qr" /\ cop[d].op = "get_qr"
         /\ cop[c].issued /\ cop[d].issued)
            => \/ cop[c].at - cop[d].at >= QrWindowTicks
               \/ cop[d].at - cop[c].at >= QrWindowTicks

(***************************************************************************)
(* manager.py ClientManager: refresh_instance, _bootstrap, get_client,     *)
(* drop_client and _sync_state, over the instances table.                  *)
(***************************************************************************)
MaxTasks == 2

MaxRowChanges == 2

Tasks == 1..MaxTasks

\* the api ids the manager is asked about: one has a row, one has none
RegIds == {MapApiId, UnknownApiId}

\* the row ids refresh_instance is given: the row of MapApiId, and a row
\* that is not there
RowIds == {MapInstanceId, MapInstanceId + 1}

Tokens == {"tokA", "tokB"}

NoRow ==
    [ id |-> NoId, api_id |-> NoId, api_url |-> "", media_url |-> "", api_token |-> "",
      state |-> "unknown", phone |-> None, photo_url |-> None ]

Row(state, phone, photo_url) ==
    [ id |-> MapInstanceId, api_id |-> MapApiId, api_url |-> "https://api",
      media_url |-> "https://media", api_token |-> "tokA",
      state |-> state, phone |-> phone, photo_url |-> photo_url ]

\* fp = (fresh.api_url, fresh.media_url, fresh.api_token)
Fingerprint(row) == <<row.api_url, row.media_url, row.api_token>>

NoClient == [uid |-> NoId, id |-> NoId, _fingerprint |-> <<"", "", "">>]

\* GreenAPIClient(...) of _bootstrap with its _fingerprint set: uid tells
\* one client object from another
NewClient(uid, fresh) ==
    [uid |-> uid, id |-> fresh.api_id, _fingerprint |-> Fingerprint(fresh)]

\* _bootstrap line 123: cached._fingerprint == fp
SameFingerprint(cached, fp) == cached._fingerprint = fp

\* a _sync_state without the clause for the throttle error
ThrottleIsAnError(reply) == FALSE

\* _sync_state lines 148-150: except GreenAPIThrottleError: return
ThrottleEndsSync(reply) == reply = "throttle"

\* what get_state gives _sync_state: the throttle error, another exception
\* (a value InstanceState does not know included), or a state
StateReplies == {"throttle", "error", "authorized", "notAuthorized"}

\* what get_settings gives _sync_state: an exception, or settings with a wid
SettingsReplies == {"error", "79001112233@c.us"}

IdleTask ==
    [ pc |-> "idle", kind |-> "none", arg |-> NoId, api_id |-> NoId, fresh |-> NoRow,
      last |-> "none", modified |-> FALSE, dirty |-> FALSE, out |-> "none",
      got |-> NoClient ]

InFlight(t) == reg[t].pc \notin {"idle", "done"}

\* the end of a call: refresh_instance, refresh_instance_by_api_id and
\* drop_client return; get_client yields self._clients[api_id], which is a
\* KeyError when no client is there
Finish(rec, how, clients) ==
    LET end == [IdleTask EXCEPT !.pc = "done", !.kind = rec.kind, !.api_id = rec.api_id,
                                !.last = rec.last]
    IN  IF rec.kind = "get" /\ how # "raised"
        THEN IF clients[rec.api_id] # NoClient
             THEN [end EXCEPT !.out = "yielded", !.got = clients[rec.api_id]]
             ELSE [end EXCEPT !.out = "KeyError"]
        ELSE [end EXCEPT !.out = how]

\* _sync_state lines 181-184: the commit, when something was modified
SyncCommit(rec, clients) ==
    IF rec.modified THEN [rec EXCEPT !.pc = "commit"] ELSE Finish(rec, "ok", clients)

\* _sync_state lines 177-179: _ensure_webhook unless the state is unknown
AfterProfile(rec, clients) ==
    IF rec.fresh.state # "unknown" THEN [rec EXCEPT !.pc = "ensure_webhook"]
    ELSE SyncCommit(rec, clients)

\* _bootstrap lines 131-141: the new client is put in the map and synced
Install(t, rec) ==
    /\ made' = made + 1
    /\ _clients' = [_clients EXCEPT ![rec.api_id] = NewClient(made + 1, rec.fresh)]
    /\ reg' = [reg EXCEPT ![t] = [rec EXCEPT !.pc = "get_state"]]

\* refresh_instance(row_id), refresh_instance_by_api_id(api_id) or
\* get_client(api_id) is called; get_client yields a cached client at once
RegCall(t, kind, arg) ==
    /\ ~InFlight(t)
    /\ \/ /\ kind = "refresh" /\ arg \in RowIds
          /\ reg' = [reg EXCEPT ![t] = [IdleTask EXCEPT !.pc = "read_id", !.kind = kind,
                                                        !.arg = arg]]
       \/ /\ kind = "bootstrap" /\ arg \in RegIds
          /\ reg' = [reg EXCEPT ![t] = [IdleTask EXCEPT !.pc = "read", !.kind = kind,
                                                        !.arg = arg, !.api_id = arg]]
       \/ /\ kind = "get" /\ arg \in RegIds
          /\ LET rec == [IdleTask EXCEPT !.kind = kind, !.arg = arg, !.api_id = arg] IN
             reg' = [reg EXCEPT ![t] =
                        IF _clients[arg] # NoClient THEN Finish(rec, "ok", _clients)
                        ELSE [rec EXCEPT !.pc = "read"]]
    /\ UNCHANGED <<instances, _clients, made, changes, regFrame>>

\* refresh_instance lines 53-58: db.get(Instance, row_id)
RegReadId(t) ==
    /\ reg[t].pc = "read_id"
    /\ LET found == { a \in RegIds : instances[a] # NoRow /\ instances[a].id = reg[t].arg } IN
       reg' = [reg EXCEPT ![t] =
                 IF found = {} THEN Finish(@, "no_row", _clients)
                 ELSE [@ EXCEPT !.pc = "read", !.api_id = CHOOSE a \in found : TRUE]]
    /\ UNCHANGED <<instances, _clients, made, changes, regFrame>>

\* _bootstrap lines 113-139: the row is read; a cached client with the
\* row's fingerprint is kept and synced, a missing one is made at once
\* (_clear_webhook of None fails without suspending), and one with another
\* fingerprint first has its webhook cleared
RegRead(t) ==
    /\ reg[t].pc = "read"
    /\ LET fresh  == instances[reg[t].api_id]
           cached == _clients[reg[t].api_id]
           rec    == [reg[t] EXCEPT !.fresh = fresh]
       IN  IF fresh = NoRow
           THEN /\ reg' = [reg EXCEPT ![t] = Finish(rec, "no_row", _clients)]
                /\ UNCHANGED <<_clients, made>>
           ELSE IF cached # NoClient /\ SameFingerprint(cached, Fingerprint(fresh))
           THEN /\ reg' = [reg EXCEPT ![t] =
                            [rec EXCEPT !.pc = "get_state"]]
                /\ UNCHANGED <<_clients, made>>
           ELSE IF cached = NoClient
           THEN Install(t, rec)
           ELSE /\ reg' = [reg EXCEPT ![t] = [rec EXCEPT !.pc = "clear_webhook"]]
                /\ UNCHANGED <<_clients, made>>
    /\ UNCHANGED <<instances, changes, regFrame>>

\* _clear_webhook of the old client has returned, whatever it met
RegCleared(t) ==
    /\ reg[t].pc = "clear_webhook"
    /\ Install(t, reg[t])
    /\ UNCHANGED <<instances, changes, regFrame>>

\* _sync_state lines 145-179: get_state has answered; on the throttle error
\* the sync ends, otherwise the state is compared with the row, an
\* unauthorized row loses its phone and photo
RegState(t, reply) ==
    /\ reg[t].pc = "get_state"
    /\ LET rec   == [reg[t] EXCEPT !.last = reply]
           state == IF reply \in {"error", "throttle"} THEN "unknown" ELSE reply
           row   == rec.fresh
           r1    == [row EXCEPT !.state = state]
           wipe  == state # "authorized" /\ (Truthy(row.phone) \/ Truthy(row.photo_url))
           r2    == IF wipe THEN [r1 EXCEPT !.phone = None, !.photo_url = None] ELSE r1
           rec2  == [rec EXCEPT !.fresh = r2,
                                !.modified = (row.state # state) \/ wipe]
       IN  reg' = [reg EXCEPT ![t] =
                     IF ThrottleEndsSync(reply) THEN Finish(rec, "throttled", _clients)
                     ELSE IF state = "authorized" THEN [rec2 EXCEPT !.pc = "get_settings"]
                     ELSE AfterProfile(rec2, _clients)]
    /\ UNCHANGED <<instances, _clients, made, changes, regFrame>>

\* _sync_state lines 160-170: get_settings has answered; the phone is the
\* wid up to its last "@"
RegSettings(t, reply) ==
    /\ reg[t].pc = "get_settings"
    /\ LET phone == BeforeLast(reply, "@")
           rec   == IF reply # "error" /\ reg[t].fresh.phone # phone
                    THEN [reg[t] EXCEPT !.fresh.phone = phone, !.modified = TRUE]
                    ELSE reg[t]
       IN  reg' = [reg EXCEPT ![t] = AfterProfile(rec, _clients)]
    /\ UNCHANGED <<instances, _clients, made, changes, regFrame>>

\* _ensure_webhook lines 197-229 has returned: it read the provider's
\* settings and wrote them when one drifted, all of it on the provider's
\* side, and swallowed what it met
RegWebhook(t) ==
    /\ reg[t].pc = "ensure_webhook"
    /\ reg' = [reg EXCEPT ![t] = SyncCommit(@, _clients)]
    /\ UNCHANGED <<instances, _clients, made, changes, regFrame>>

\* _sync_state lines 181-184: state, phone and photo of the row object are
\* written to the store; the commit fails when the row has gone
RegCommit(t) ==
    /\ reg[t].pc = "commit"
    /\ LET a == reg[t].api_id IN
       IF instances[a] = NoRow
       THEN /\ reg' = [reg EXCEPT ![t] = Finish(@, "raised", _clients)]
            /\ UNCHANGED instances
       ELSE /\ instances' = [instances EXCEPT ![a] = [@ EXCEPT !.state = reg[t].fresh.state,
                                                      !.phone = reg[t].fresh.phone,
                                                      !.photo_url = reg[t].fresh.photo_url]]
            /\ reg' = [reg EXCEPT ![t] = Finish(@, "ok", _clients)]
    /\ UNCHANGED <<_clients, made, changes, regFrame>>

\* drop_client lines 71-78 for a deleted row: the client leaves the map,
\* then its webhook is cleared
RegDrop(t, api_id) ==
    /\ ~InFlight(t)
    /\ instances[api_id] = NoRow
    /\ _clients' = [_clients EXCEPT ![api_id] = NoClient]
    /\ LET rec == [IdleTask EXCEPT !.kind = "drop", !.arg = api_id, !.api_id = api_id] IN
       reg' = [reg EXCEPT ![t] =
                 IF _clients[api_id] = NoClient THEN Finish(rec, "ok", _clients')
                 ELSE [rec EXCEPT !.pc = "drop_clear"]]
    /\ UNCHANGED <<instances, made, changes, regFrame>>

RegDropped(t) ==
    /\ reg[t].pc = "drop_clear"
    /\ reg' = [reg EXCEPT ![t] = Finish(@, "ok", _clients)]
    /\ UNCHANGED <<instances, _clients, made, changes, regFrame>>

\* the calls on this account that a change of its row is concurrent with
Touched(a) ==
    [t \in Tasks |->
        IF InFlight(t) /\ (reg[t].api_id = a \/ reg[t].pc = "read_id")
        THEN [reg[t] EXCEPT !.dirty = TRUE] ELSE reg[t]]

\* the admin panel changes the token of an account
RowUpdate(a, token) ==
    /\ changes < MaxRowChanges
    /\ instances[a] # NoRow /\ instances[a].api_token # token
    /\ instances' = [instances EXCEPT ![a].api_token = token]
    /\ reg' = Touched(a)
    /\ changes' = changes + 1
    /\ UNCHANGED <<_clients, made, regFrame>>

\* the admin panel deletes an account
RowDelete(a) ==
    /\ changes < MaxRowChanges
    /\ instances[a] # NoRow
    /\ instances' = [instances EXCEPT ![a] = NoRow]
    /\ reg' = Touched(a)
    /\ changes' = changes + 1
    /\ UNCHANGED <<_clients, made, regFrame>>

\* the table after start(): the account's row, with a client made of it
RegInit ==
    /\ instances \in { [a \in RegIds |-> IF a = MapApiId THEN row ELSE NoRow] :
                    row \in { Row("unknown", None, None),
                              Row("authorized", "79001112233", "p.jpg") } }
    /\ _clients \in { [a \in RegIds |-> NoClient],
                      [a \in RegIds |-> IF a = MapApiId THEN NewClient(1, instances[a])
                                        ELSE NoClient] }
    /\ made = 1
    /\ changes = 0
    /\ reg = [t \in Tasks |-> IdleTask]

RegNext ==
    \/ \E t \in Tasks, kind \in {"refresh", "bootstrap", "get"}, arg \in RegIds \cup RowIds :
            RegCall(t, kind, arg)
    \/ \E t \in Tasks : RegReadId(t)
    \/ \E t \in Tasks : RegRead(t)
    \/ \E t \in Tasks : RegCleared(t)
    \/ \E t \in Tasks, reply \in StateReplies : RegState(t, reply)
    \/ \E t \in Tasks, reply \in SettingsReplies : RegSettings(t, reply)
    \/ \E t \in Tasks : RegWebhook(t)
    \/ \E t \in Tasks : RegCommit(t)
    \/ \E t \in Tasks, a \in RegIds : RegDrop(t, a)
    \/ \E t \in Tasks : RegDropped(t)
    \/ \E a \in RegIds, token \in Tokens : RowUpdate(a, token)
    \/ \E a \in RegIds : RowDelete(a)

RegIdle ==
    /\ instances = [a \in RegIds |-> IF a = MapApiId THEN Row("unknown", None, None) ELSE NoRow]
    /\ _clients = [a \in RegIds |-> NoClient]
    /\ made = 1
    /\ changes = 0
    /\ reg = [t \in Tasks |-> IdleTask]

\* C32: once drop_client has run for a deleted account and no call for it
\* is in flight any more, the manager holds no client for it.
C32_DroppedStaysDropped ==
    \A a \in RegIds :
        (/\ instances[a] = NoRow
         /\ \E t \in Tasks : reg[t].pc = "done" /\ reg[t].kind = "drop" /\ reg[t].api_id = a
         /\ \A t \in Tasks : ~InFlight(t))
            => _clients[a] = NoClient

\* C13: a refresh or bootstrap that ends with its row unchanged meanwhile
\* leaves a client whose fingerprint is the row's; a cached client with
\* that fingerprint is kept as it is, and a client that enters the map is a
\* newly constructed one with the fingerprint of the row read.
C13_ClientMatchesRow ==
    [][ /\ \A t \in Tasks :
             LET a == reg[t].api_id IN
             /\ (/\ InFlight(t) /\ reg'[t].pc = "done"
                 /\ reg[t].kind \in {"refresh", "bootstrap"}
                 /\ reg[t].fresh # NoRow /\ ~reg[t].dirty)
                    => /\ _clients'[a] # NoClient
                       /\ _clients'[a].id = a
                       /\ _clients'[a]._fingerprint = Fingerprint(instances'[a])
             /\ (/\ reg[t].pc = "read" /\ reg'[t].pc # "read"
                 /\ instances[a] # NoRow /\ _clients[a] # NoClient)
                    => IF _clients[a]._fingerprint = Fingerprint(instances[a])
                       THEN _clients' = _clients /\ reg'[t].pc = "get_state"
                       ELSE reg'[t].pc = "clear_webhook"
        /\ \A a \in RegIds :
             (_clients'[a] # _clients[a] /\ _clients'[a] # NoClient)
                => /\ made' = made + 1
                   /\ _clients'[a].uid = made'
                   /\ \A b \in RegIds : _clients[b].uid < made'
                   /\ \E t \in Tasks :
                        /\ reg[t].pc \in {"read", "clear_webhook"}
                        /\ reg'[t].pc = "get_state"
                        /\ _clients'[a]._fingerprint = Fingerprint(reg'[t].fresh) ]_vars

\* C14: get_client yields a client bound to the id for every id it is
\* called with.
C14_GetYieldsClient ==
    \A t \in Tasks :
        (reg[t].pc = "done" /\ reg[t].kind = "get")
            => reg[t].out = "yielded" /\ reg[t].got.id = reg[t].api_id

\* C15: when get_state raises the throttle error the sync ends there: the
\* row in the store keeps its state, phone and photo, and no commit follows.
C15_ThrottleSkipsSync ==
    [][ \A t \in Tasks :
          (/\ reg[t].pc = "get_state" /\ reg'[t].pc # "get_state"
           /\ reg'[t].last = "throttle")
              => /\ reg'[t].pc = "done"
                 /\ instances' = instances
                 /\ _clients' = _clients ]_vars

\* a sync of an authorized account met the throttle error: the row still
\* says authorized and has its phone
C15_ThrottledRowKept ==
    \E t \in Tasks :
        /\ reg[t].pc = "done" /\ reg[t].last = "throttle"
        /\ instances[reg[t].api_id].state = "authorized"
        /\ Truthy(instances[reg[t].api_id].phone)

(***************************************************************************)
(* The change bus: the callbacks the three listeners register on their     *)
(* LISTEN connections.  A callback is called with the payload text of one  *)
(* NOTIFY; the step below is the callback up to the point where it hands   *)
(* the decoded identifier to the work behind it.                           *)
(***************************************************************************)
Channels == {"instance_change", "msg_in", "msg_out"}

\* payload texts: what the triggers build, and what anything else that can
\* NOTIFY on the channel may send
Payloads ==
    { "not json", "[1]", "\"insert\"", "7", "null", "{}",
      "{\"id\":1}",
      "{\"action\":\"insert\",\"id\":1}",
      "{\"action\":\"update\",\"id\":1}",
      "{\"action\":\"delete\",\"id\":1,\"api_id\":7105}",
      "{\"action\":\"insert\"}",
      "{\"action\":\"delete\",\"id\":1}",
      "{\"action\":\"truncate\",\"id\":1}",
      "{\"msg_id\":1}" }

JSONDecodeError == [ok |-> FALSE, type |-> "", v |-> <<>>]

Decoded(type, v) == [ok |-> TRUE, type |-> type, v |-> v]

\* json.loads on the payload texts above
json_loads(text) ==
    CASE text = "not json" -> JSONDecodeError
      [] text = "[1]" -> Decoded("list", <<1>>)
      [] text = "\"insert\"" -> Decoded("str", "insert")
      [] text = "7" -> Decoded("int", 7)
      [] text = "null" -> Decoded("NoneType", None)
      [] text = "{}" -> Decoded("dict", <<>>)
      [] text = "{\"id\":1}" -> Decoded("dict", [id |-> 1])
      [] text = "{\"action\":\"insert\",\"id\":1}"
            -> Decoded("dict", [action |-> "insert", id |-> 1])
      [] text = "{\"action\":\"update\",\"id\":1}"
            -> Decoded("dict", [action |-> "update", id |-> 1])
      [] text = "{\"action\":\"delete\",\"id\":1,\"api_id\":7105}"
            -> Decoded("dict", [action |-> "delete", id |-> 1, api_id |-> 7105])
      [] text = "{\"action\":\"insert\"}"
            -> Decoded("dict", [action |-> "insert"])
      [] text = "{\"action\":\"delete\",\"id\":1}"
            -> Decoded("dict", [action |-> "delete", id |-> 1])
      [] text = "{\"action\":\"truncate\",\"id\":1}"
            -> Decoded("dict", [action |-> "truncate", id |-> 1])
      [] text = "{\"msg_id\":1}" -> Decoded("dict", [msg_id |-> 1])

\* data[key] with a string key: a dict answers or raises KeyError, every
\* other decoded value raises TypeError
Subscript(data, key) ==
    IF data.type = "dict"
    THEN IF key \in DOMAIN data.v
         THEN [exc |-> None, v |-> data.v[key]]
         ELSE [exc |-> "KeyError", v |-> 0]
    ELSE [exc |-> "TypeError", v |-> 0]

NoWork == [kind |-> "", arg |-> 0]

Work(kind, arg) == [kind |-> kind, arg |-> arg]

\* how a callback ends: the exception that leaves it, the work it started
CallbackEnd(raised, work) == [raised |-> raised, work |-> work]

\* instance_change: the decoding and the read of "action" are guarded,
\* the reads of "id" and "api_id" are not
_handler(payload) ==
    LET data == json_loads(payload)
        action == Subscript(data, "action")
        id == Subscript(data, "id")
        api_id == Subscript(data, "api_id")
    IN  IF ~data.ok \/ action.exc = "KeyError"
        THEN CallbackEnd(None, NoWork)
        ELSE IF action.exc # None
        THEN CallbackEnd(action.exc, NoWork)
        ELSE IF action.v \in {"insert", "update"}
        THEN IF id.exc # None
             THEN CallbackEnd(id.exc, NoWork)
             ELSE CallbackEnd(None, Work("refresh_instance", id.v))
        ELSE IF action.v = "delete"
        THEN IF api_id.exc # None
             THEN CallbackEnd(api_id.exc, NoWork)
             ELSE CallbackEnd(None, Work("drop_client", api_id.v))
        ELSE CallbackEnd(None, NoWork)

\* msg_in and msg_out: json.loads(payload)["msg_id"], unguarded, then the
\* rest of the callback with that identifier
MsgCallback(channel, payload) ==
    LET data == json_loads(payload)
        msg_id == Subscript(data, "msg_id")
    IN  IF ~data.ok
        THEN CallbackEnd("JSONDecodeError", NoWork)
        ELSE IF msg_id.exc # None
        THEN CallbackEnd(msg_id.exc, NoWork)
        ELSE CallbackEnd(None, Work(channel, msg_id.v))

IdleBus == [channel |-> "", payload |-> "", raised |-> None, work |-> NoWork]

Notified(channel, payload, end) ==
    /\ bus' = [channel |-> channel, payload |-> payload,
               raised |-> end.raised, work |-> end.work]
    /\ spawned' = IF end.work = NoWork THEN spawned ELSE spawned \cup {end.work}
    /\ UNCHANGED busFrame

BusInstanceChange(payload) ==
    Notified("instance_change", payload, _handler(payload))

BusMsgIn(payload) ==
    Notified("msg_in", payload, MsgCallback("msg_in", payload))

BusMsgOut(payload) ==
    Notified("msg_out", payload, MsgCallback("msg_out", payload))

BusIdle ==
    bus = IdleBus /\ spawned = {}

BusNext ==
    \/ \E payload \in Payloads : BusInstanceChange(payload)
    \/ \E payload \in Payloads : BusMsgIn(payload)
    \/ \E payload \in Payloads : BusMsgOut(payload)

\* the keys a callback reads from the envelope of its channel
RequiredKeys(channel, data) ==
    IF channel # "instance_change" THEN {"msg_id"}
    ELSE IF "action" \notin DOMAIN data.v THEN {"action"}
    ELSE IF data.v.action \in {"insert", "update"} THEN {"action", "id"}
    ELSE IF data.v.action = "delete" THEN {"action", "api_id"}
    ELSE {"action"}

\* not valid JSON, JSON that is not an object, or an object without a
\* required key
Malformed(channel, payload) ==
    LET data == json_loads(payload)
    IN  \/ ~data.ok
        \/ data.type # "dict"
        \/ ~(RequiredKeys(channel, data) \subseteq DOMAIN data.v)

\* C16: on each of the three subscriptions a malformed envelope is dropped:
\* the callback returns without raising and starts no handler work.
C16_MalformedDropped ==
    (bus.channel # "" /\ Malformed(bus.channel, bus.payload))
        => (bus.raised = None /\ bus.work = NoWork)

(***************************************************************************)
(* listeners/msg_in_listener.py: the handler of one msg_in notification,   *)
(* one step per await, next to the outbound dispatcher, over a table that  *)
(* holds one message the backfill imported and one live message.           *)
(***************************************************************************)
MaxNotifies == 3

\* what getChatHistory returned for the imported message
ArchiveSamples ==
    {TextHi} \cup { m \in LiveMedia : /\ m.mtype = "imageMessage"
                                     /\ {"downloadUrl", "caption", "fileName"} \subseteq DOMAIN m.c }

\* load_history: the rows it adds for history entries
ImportedRows ==
    { IngestHistoryEntry(HistoryEntry(m, "wa1", ChatA, inc), MapApiId, MapInstanceId,
                         None, Downloaded(1)).msg :
        m \in ArchiveSamples, inc \in BOOLEAN }

\* _handle_call's row for the offer stage
CallRow == CallMessage(MapInstanceId, "wa3", ChatB, "offer")

\* rows of the live pipelines: an incoming webhook's, a call's, and the
\* messages an admin has queued
LiveRows ==
    { PayloadToMsg(NativePayload(TextHi, MapApiId, "wa2", ChatB, TRUE), MapInstanceId,
                   TRUE, FALSE, None, NoDownload).msg,
      CallRow }
    \cup { r \in OutRows : /\ r.from_app /\ ~r.is_archived
                           /\ r.text = "hi" /\ r.tg_message_id = None
                           /\ r.wa_message_id = None }

\* Instance.auto_reply and Instance.auto_reply_text
AutoReplySettings ==
    { [auto_reply |-> TRUE, auto_reply_text |-> "away"],
      [auto_reply |-> TRUE, auto_reply_text |-> None],
      [auto_reply |-> FALSE, auto_reply_text |-> "away"] }

\* the auto-reply _handler queues
AutoMsg(inst_id, msg, text) ==
    [ instance_id   |-> inst_id,
      wa_message_id |-> None,
      chat_id       |-> msg.chat_id,
      chat_name     |-> msg.chat_name,
      from_app      |-> TRUE,
      direction     |-> "out",
      status        |-> "pending",
      message_type  |-> "text",
      text          |-> text,
      is_archived   |-> FALSE,
      tg_message_id |-> None,
      files         |-> << >> ]

IdleInb == [pc |-> "idle", msg_id |-> NoId, idx |-> 0, out |-> "none"]

InDone(out) == [IdleInb EXCEPT !.pc = "done", !.msg_id = inb.msg_id, !.out = out]

\* a _handler that goes on with archived messages
SkipsNothing(msg) == FALSE

\* "if msg.is_archived: return"
SkipsArchived(msg) == msg.is_archived

\* one file of a class with a Telegram method of its own, or documents
SingleMedia(msg) ==
    Len(msg.files) = 1 /\ msg.files[1].file_type \in {"image", "video", "audio"}

TgCall(msg_id, method) == [msg_id |-> msg_id, method |-> method]

\* the first bot call for a message that is not a call
FirstSend(msg_id, msg) ==
    IF Len(msg.files) = 0 THEN TgCall(msg_id, "send_message")
    ELSE IF SingleMedia(msg) THEN TgCall(msg_id, "send_" \o msg.files[1].file_type)
    ELSE TgCall(msg_id, "send_document")

\* a notification on msg_in arrives: the callback decodes it and asks for
\* the message
InNotify(id) ==
    /\ inb.pc \in {"idle", "done"}
    /\ notifies < MaxNotifies
    /\ notifies' = notifies + 1
    /\ inb' = [IdleInb EXCEPT !.pc = "select", !.msg_id = id]
    /\ UNCHANGED <<messages, tg_sent, autos, auto_cfg, inFrame>>

\* the SELECT answers: the branches up to the first bot call
InLoad ==
    /\ inb.pc = "select"
    /\ IF inb.msg_id > Len(messages)
       THEN inb' = InDone("not_found") /\ UNCHANGED tg_sent
       ELSE LET msg == messages[inb.msg_id]
            IN  IF SkipsArchived(msg)
                THEN inb' = InDone("skipped") /\ UNCHANGED tg_sent
                ELSE IF msg.message_type = "call"
                THEN IF msg.direction = "inc"
                     THEN /\ inb' = [inb EXCEPT !.pc = "send"]
                          /\ tg_sent' = Append(tg_sent, TgCall(inb.msg_id, "send_message"))
                     ELSE inb' = InDone("handled") /\ UNCHANGED tg_sent
                ELSE /\ inb' = [inb EXCEPT !.pc = "send", !.idx = 1]
                     /\ tg_sent' = Append(tg_sent, FirstSend(inb.msg_id, msg))
    /\ UNCHANGED <<messages, autos, auto_cfg, notifies, inFrame>>

\* a bot call answers or raises; _send_with_files goes on with the next
\* document
InSendAnswer(ok) ==
    /\ inb.pc = "send"
    /\ LET msg == messages[inb.msg_id]
       IN  IF ~ok
           THEN inb' = [inb EXCEPT !.pc = "mark_error"] /\ UNCHANGED tg_sent
           ELSE IF Len(msg.files) > 0 /\ ~SingleMedia(msg) /\ inb.idx < Len(msg.files)
           THEN /\ inb' = [inb EXCEPT !.idx = inb.idx + 1]
                /\ tg_sent' = Append(tg_sent, TgCall(inb.msg_id, "send_document"))
           ELSE inb' = [inb EXCEPT !.pc = "commit_tg", !.idx = 0] /\ UNCHANGED tg_sent
    /\ UNCHANGED <<messages, autos, auto_cfg, notifies, inFrame>>

\* msg.tg_message_id is committed; an incoming message goes on to the
\* auto-reply when the instance has one
InCommitTg ==
    /\ inb.pc = "commit_tg"
    /\ LET msg == messages[inb.msg_id]
       IN  /\ messages' = [messages EXCEPT ![inb.msg_id].tg_message_id = "tg1"]
           /\ inb' = IF /\ msg.message_type # "call"
                        /\ msg.direction = "inc"
                        /\ auto_cfg.auto_reply /\ Truthy(auto_cfg.auto_reply_text)
                     THEN [inb EXCEPT !.pc = "auto_select"]
                     ELSE InDone("handled")
    /\ UNCHANGED <<tg_sent, autos, auto_cfg, notifies, inFrame>>

\* the SELECT for an auto-reply to this chat within AUTO_REPLY_INTERVAL
InAutoSelect ==
    /\ inb.pc = "auto_select"
    /\ LET msg == messages[inb.msg_id]
           exists == \E a \in autos : /\ messages[a].instance_id = msg.instance_id
                                      /\ messages[a].chat_id = msg.chat_id
       IN  inb' = IF exists THEN InDone("handled") ELSE [inb EXCEPT !.pc = "auto_commit"]
    /\ UNCHANGED <<messages, tg_sent, autos, auto_cfg, notifies, inFrame>>

\* the auto-reply is committed
InAutoCommit ==
    /\ inb.pc = "auto_commit"
    /\ LET msg == messages[inb.msg_id]
       IN  messages' = Append(messages,
                              AutoMsg(msg.instance_id, msg, auto_cfg.auto_reply_text))
    /\ autos' = autos \cup {Len(messages) + 1}
    /\ inb' = InDone("auto_replied")
    /\ UNCHANGED <<tg_sent, auto_cfg, notifies, inFrame>>

\* except Exception: the message is marked internal_error
InMarkError ==
    /\ inb.pc = "mark_error"
    /\ messages' = [messages EXCEPT ![inb.msg_id].status = "internal_error"]
    /\ inb' = InDone("error")
    /\ UNCHANGED <<tg_sent, autos, auto_cfg, notifies, inFrame>>

\* a notification on msg_out arrives at the dispatcher
OutNotify(id) ==
    /\ dsp.pc = "done"
    /\ notifies < MaxNotifies
    /\ notifies' = notifies + 1
    /\ dsp' = [IdleDsp EXCEPT !.msg_id = id]
    /\ UNCHANGED <<messages, fs, calls, inb, tg_sent, autos, auto_cfg,
                   mapVars, conversations, wh, delivered, up, limVars, bfVars,
                   clVars, regVars, busVars, pace, tailVars>>

InIdle ==
    /\ inb = IdleInb
    /\ tg_sent = << >>
    /\ autos = {}
    /\ auto_cfg = [auto_reply |-> FALSE, auto_reply_text |-> None]
    /\ notifies = 0

\* the table after one import and one live message, both handlers at rest
ArchiveInit ==
    /\ messages \in { << old, new >> : old \in ImportedRows, new \in LiveRows }
    /\ conversations = {ConvKey(MapInstanceId, ChatA), ConvKey(MapInstanceId, ChatB)}
    /\ fs = AllOutFiles
    /\ wh = [h \in Handlers |-> IdleWh]
    /\ delivered = 0
    /\ dsp = [IdleDsp EXCEPT !.pc = "done"]
    /\ calls = << >>
    /\ inb = IdleInb
    /\ tg_sent = << >>
    /\ autos = {}
    /\ auto_cfg \in AutoReplySettings
    /\ notifies = 0

ArchiveNext ==
    \/ \E id \in 1..(Len(messages) + 1) : InNotify(id)
    \/ InLoad
    \/ \E ok \in BOOLEAN : InSendAnswer(ok)
    \/ InCommitTg
    \/ InAutoSelect
    \/ InAutoCommit
    \/ InMarkError
    \/ \E id \in 1..(Len(messages) + 1) : OutNotify(id)
    \/ DspLoad
    \/ \E ans \in SendAnswers : DspUploadAnswer(ans)
    \/ \E ans \in SendAnswers : DspTextAnswer(ans)
    \/ DspCommitWa
    \/ DspCommitStatus
    \/ DspReact
    \/ DspNotify

\* the rows the backfill imported
Imported == { i \in 1..Len(messages) : messages[i] \in ImportedRows }

\* C19: a Message the backfill imported is archived and causes no outward
\* effect of the live pipelines: the inbound handler sends no notification
\* and queues no auto-reply for it, and the dispatcher issues no provider
\* send for it.
C19_ImportedStaysSilent ==
    \A i \in Imported :
        /\ messages[i].is_archived
        /\ \A k \in 1..Len(tg_sent) : tg_sent[k].msg_id # i
        /\ (inb.msg_id = i) => (inb.pc \in {"select", "done"}
                                 /\ inb.out \in {"none", "skipped"})
        /\ (dsp.msg_id = i) => (dsp.pc \in {"notified", "done"}
                                 /\ dsp.out \in {"none", "skipped"})

\* both handlers were notified of the imported incoming message and
\* returned at once, while the live message went out to the channel
C19_ImportedSkippedLiveNotified ==
    \E i \in Imported :
        /\ messages[i].direction = "inc"
        /\ inb.pc = "done" /\ inb.out = "skipped" /\ inb.msg_id = i
        /\ dsp.pc = "done" /\ dsp.out = "skipped" /\ dsp.msg_id = i
        /\ Len(tg_sent) > 0
        /\ calls = << >>

(***************************************************************************)
(* limiter.py: one caller drawing tokens back to back from a limiter that  *)
(* starts idle.  Time is in the ticks of the limiter part: half a period,  *)
(* in which the bucket leaks half a token.                                 *)
(***************************************************************************)
MaxAcquisitions == 10

MaxPaceTime == 20

\* 5 requests per second
FiveRps == [num |-> 5, den |-> 1]

\* acquire() has returned: the token is drawn and the time is noted
Drawn(p) ==
    [p EXCEPT !.lim.level = @ + 2,
              !.n = @ + 1,
              !.first = IF p.n = 0 THEN p.now ELSE @,
              !.last = p.now]

\* "async with limiter" / acquire(): returns as soon as the bucket has room
\* for one token
PaceAcquire ==
    /\ pace.n < MaxAcquisitions
    /\ has_capacity(pace.lim)
    /\ pace' = Drawn(pace)
    /\ UNCHANGED paceFrame

\* half a period passes and the bucket leaks half a token
PaceTick ==
    /\ pace.now < MaxPaceTime
    /\ pace' = [pace EXCEPT !.now = @ + 1,
                            !.lim.level = IF @ > 0 THEN @ - 1 ELSE 0]
    /\ UNCHANGED paceFrame

PaceIdle ==
    pace = [lim |-> SmartLimiter(FiveRps), now |-> 0, n |-> 0, first |-> 0, last |-> 0]

PaceNext == PaceAcquire \/ PaceTick

\* C20: a limiter at 5 rps that serves 10 acquisitions back to back from
\* idle completes the tenth no earlier than nine periods (1.8 s) after the
\* first.
C20_TenthAfterNinePeriods ==
    (pace.n >= 10) => (pace.last - pace.first >= 9 * PeriodTicks)

(***************************************************************************)
(* manager.py _ensure_webhook: the settings of one account at the          *)
(* provider are read and, when one of the checked ones has drifted,        *)
(* written.                                                                *)
(***************************************************************************)
MaxEnsures == 2

Ensures == 1..MaxEnsures

\* settings.GREEN_WEBHOOK_PUBLIC
GREEN_WEBHOOK_PUBLIC == "https://panel.example/green/webhook"

\* the dictionary _ensure_webhook gives to set_settings
DesiredSettings ==
    [ webhookUrl                        |-> GREEN_WEBHOOK_PUBLIC,
      incomingWebhook                   |-> "yes",
      outgoingWebhook                   |-> "yes",
      outgoingMessageWebhook            |-> "yes",
      outgoingAPIMessageWebhook         |-> "yes",
      stateWebhook                      |-> "yes",
      incomingCallWebhook               |-> "yes",
      markIncomingMessagesReadedOnReply |-> "yes" ]

\* the settings _ensure_webhook compares
CheckedFields == DOMAIN DesiredSettings

\* the provider holds settings _ensure_webhook does not look at as well
SettingFields == CheckedFields \cup {"keepOnlineStatus"}

SettingValues(f) == IF f = "webhookUrl" THEN {GREEN_WEBHOOK_PUBLIC, ""} ELSE {"yes", "no"}

\* what getSettings may answer
ProviderSettings == { st \in [SettingFields -> {GREEN_WEBHOOK_PUBLIC, "", "yes", "no"}] :
                        \A f \in SettingFields : st[f] \in SettingValues(f) }

NoSettings == [f \in SettingFields |-> None]

\* a comparison that looks at the address alone
DriftedUrlOnly(st) == st["webhookUrl"] # GREEN_WEBHOOK_PUBLIC

\* lines 199-210: the chain of comparisons
Drifted(st) ==
    \/ st["webhookUrl"] # GREEN_WEBHOOK_PUBLIC
    \/ st["incomingWebhook"] # "yes"
    \/ st["outgoingWebhook"] # "yes"
    \/ st["outgoingMessageWebhook"] # "yes"
    \/ st["outgoingAPIMessageWebhook"] # "yes"
    \/ st["stateWebhook"] # "yes"
    \/ st["incomingCallWebhook"] # "yes"
    \/ st["markIncomingMessagesReadedOnReply"] # "yes"

\* setSettings at the provider: the settings given replace the held ones
Saved(held, data) == [f \in DOMAIN held |-> IF f \in DOMAIN data THEN data[f] ELSE held[f]]

\* one call of _ensure_webhook: where it is, whether getSettings answered
\* and what, the dictionaries it gave to set_settings, and what it logged
IdleEns == [pc |-> "idle", got |-> FALSE, st |-> NoSettings, sent |-> << >>, log |-> "none"]

\* _sync_state calls _ensure_webhook(g_client, row)
EnsCall(c) ==
    /\ ens[c].pc \in {"idle", "done"}
    /\ ens' = [ens EXCEPT ![c] = [IdleEns EXCEPT !.pc = "get_settings"]]
    /\ UNCHANGED <<provider_settings, ensFrame>>

\* line 198: get_settings answers with the settings held, or raises, which
\* the except of line 228 logs
EnsGetSettings(c, ok) ==
    /\ ens[c].pc = "get_settings"
    /\ ens' = [ens EXCEPT ![c] =
                 IF ~ok THEN [@ EXCEPT !.pc = "done", !.log = "ensure_webhook failed"]
                 ELSE IF Drifted(provider_settings)
                      THEN [@ EXCEPT !.pc = "set_settings", !.got = TRUE,
                                     !.st = provider_settings]
                      ELSE [@ EXCEPT !.pc = "done", !.got = TRUE, !.st = provider_settings,
                                     !.log = "up to date"]]
    /\ UNCHANGED <<provider_settings, ensFrame>>

\* lines 211-225: set_settings answers saveSettings true or false, or raises
EnsSetSettings(c, reply) ==
    /\ ens[c].pc = "set_settings"
    /\ provider_settings' = IF reply = "saved" THEN Saved(provider_settings, DesiredSettings)
                            ELSE provider_settings
    /\ ens' = [ens EXCEPT ![c].pc = "done",
                          ![c].sent = Append(@, DesiredSettings),
                          ![c].log = CASE reply = "saved"     -> "updated"
                                       [] reply = "not_saved" -> "could not update"
                                       [] OTHER               -> "ensure_webhook failed"]
    /\ UNCHANGED ensFrame

EnsInit ==
    /\ provider_settings \in ProviderSettings
    /\ ens = [c \in Ensures |-> IdleEns]

EnsIdle ==
    /\ provider_settings = Saved(NoSettings, DesiredSettings)
    /\ ens = [c \in Ensures |-> IdleEns]

EnsNext ==
    \/ \E c \in Ensures : EnsCall(c)
    \/ \E c \in Ensures, ok \in BOOLEAN : EnsGetSettings(c, ok)
    \/ \E c \in Ensures, reply \in {"saved", "not_saved", "raised"} : EnsSetSettings(c, reply)

\* the settings read equal the desired ones in every checked field
UpToDate(st) == \A f \in CheckedFields : st[f] = DesiredSettings[f]

\* C27: a call of _ensure_webhook that read settings equal to the desired
\* configuration in every checked field makes no set_settings call; one
\* that read settings differing in a checked field makes exactly one, with
\* the whole desired configuration.
C27_OneCallWhenDrifted ==
    \A c \in Ensures :
        /\ Len(ens[c].sent) <= 1
        /\ (ens[c].pc = "done" /\ ens[c].got)
               => IF UpToDate(ens[c].st) THEN ens[c].sent = << >>
                  ELSE ens[c].sent = <<DesiredSettings>>

\* one call found only the call notifications switched off and wrote the
\* settings; the next found them up to date and wrote nothing
C27_SecondCallWritesNothing ==
    \E c1, c2 \in Ensures :
        /\ ens[c1].pc = "done" /\ ens[c1].got
        /\ ens[c1].st["incomingCallWebhook"] = "no"
        /\ \A f \in CheckedFields \ {"incomingCallWebhook"} :
               ens[c1].st[f] = DesiredSettings[f]
        /\ ens[c1].sent = <<DesiredSettings>>
        /\ ens[c2].pc = "done" /\ ens[c2].got
        /\ UpToDate(ens[c2].st)
        /\ ens[c2].sent = << >>
        /\ ens[c2].st["keepOnlineStatus"] = "no"

(***************************************************************************)
(* main.py start_listeners / stop_listeners and the three subscription     *)
(* tasks instance_listener, msg_inbox and msg_outbox: connect, add the     *)
(* callback, wait for the stop event, remove the callback, close.  The     *)
(* database answers every one of these; each notification runs the         *)
(* callback as a task of its own.                                          *)
(***************************************************************************)
MaxInFlight == 1

\* the tasks in the order stop_listeners stops them
Listeners == <<"instance_listener", "msg_inbox", "msg_outbox">>

Subs == 1..Len(Listeners)

\* one subscription task: where it is, its stop event, whether its callback
\* is registered, whether its connection is open, the handler tasks in
\* flight and whether one of them has raised
IdleLsn ==
    [ pc |-> "none", stop |-> FALSE, listening |-> FALSE, conn |-> FALSE,
      handlers |-> 0, raised |-> FALSE ]

\* a stop.wait() that also waits for the handler tasks
WaitOverWhenDrained(rec) == rec.stop /\ rec.handlers = 0

\* "await stop.wait()" returns once the event is set
WaitOver(rec) == rec.stop

\* main.py start_listeners: the three events and the three tasks are made
StartListeners ==
    /\ lifecycle = "down"
    /\ lifecycle' = "up"
    /\ lsn' = [l \in Subs |-> [IdleLsn EXCEPT !.pc = "connect"]]
    /\ UNCHANGED lsnFrame

\* one step of a subscription task, from one await to the next
LsnStep(l) ==
    /\ LET rec == lsn[l] IN
       \/ /\ rec.pc = "connect"
          /\ lsn' = [lsn EXCEPT ![l].pc = "add_listener", ![l].conn = TRUE]
       \/ /\ rec.pc = "add_listener"
          /\ lsn' = [lsn EXCEPT ![l].pc = "wait", ![l].listening = TRUE]
       \/ /\ rec.pc = "wait"
          /\ WaitOver(rec)
          /\ lsn' = [lsn EXCEPT ![l].pc = "remove_listener"]
       \/ /\ rec.pc = "remove_listener"
          /\ lsn' = [lsn EXCEPT ![l].pc = "close", ![l].listening = FALSE]
       \/ /\ rec.pc = "close"
          /\ lsn' = [lsn EXCEPT ![l].pc = "stopped", ![l].conn = FALSE]
    /\ UNCHANGED <<lifecycle, lsnFrame>>

\* a notification arrives on the channel: the callback starts as a task
LsnNotify(l) ==
    /\ lsn[l].listening /\ lsn[l].conn
    /\ lsn[l].handlers < MaxInFlight
    /\ lsn' = [lsn EXCEPT ![l].handlers = @ + 1]
    /\ UNCHANGED <<lifecycle, lsnFrame>>

\* a handler task returns or raises; it may also never end
LsnHandlerEnds(l, how) ==
    /\ lsn[l].handlers > 0
    /\ lsn' = [lsn EXCEPT ![l].handlers = @ - 1,
                          ![l].raised = @ \/ (how = "raised")]
    /\ UNCHANGED <<lifecycle, lsnFrame>>

\* main.py stop_listeners: each stop event is set and its task awaited
\* before the next
StopListeners ==
    /\ \/ /\ lifecycle = "up"
          /\ lifecycle' = "stopping"
          /\ lsn' = [lsn EXCEPT ![1].stop = TRUE]
       \/ /\ lifecycle = "stopping"
          /\ \E l \in Subs :
                /\ lsn[l].stop /\ lsn[l].pc = "stopped"
                /\ \A k \in Subs : lsn[k].stop <=> k <= l
                /\ IF l < Len(Listeners)
                   THEN /\ lsn' = [lsn EXCEPT ![l + 1].stop = TRUE]
                        /\ UNCHANGED lifecycle
                   ELSE /\ lifecycle' = "stopped"
                        /\ UNCHANGED lsn
    /\ UNCHANGED lsnFrame

LsnInit ==
    /\ lifecycle = "down"
    /\ lsn = [l \in Subs |-> IdleLsn]

LsnIdle == LsnInit

LsnNext ==
    \/ StartListeners
    \/ \E l \in Subs : LsnStep(l)
    \/ \E l \in Subs : LsnNotify(l)
    \/ \E l \in Subs, how \in {"returned", "raised"} : LsnHandlerEnds(l, how)
    \/ StopListeners

\* the event loop runs a task that can go on
LsnFair == \A l \in Subs : WF_vars(LsnStep(l))

\* the callback is removed and the connection closed
Unsubscribed(l) == ~lsn[l].listening /\ ~lsn[l].conn

\* a subscribed task whose stop event is not set stays subscribed
StaysSubscribed ==
    \A l \in Subs :
        (lsn[l].listening /\ ~lsn[l].stop) => (lsn'[l].listening /\ lsn'[l].conn)

\* C28: each subscription task stays subscribed until its stop event is
\* set, whatever its handlers do, and once the event is set it eventually
\* removes its callback and closes its connection, handler tasks in flight
\* or not.
C28_SubscribedUntilStopped ==
    /\ [][StaysSubscribed]_vars
    /\ \A l \in Subs : (lsn[l].stop ~> Unsubscribed(l))
    /\ [](\A l \in Subs : (lsn[l].stop /\ lsn[l].pc \in {"wait", "remove_listener", "close"})
                              => ENABLED LsnStep(l))

\* msg_inbox has stopped with a handler task still in flight, after one of
\* its handlers raised while it was subscribed
C28_StoppedWithHandlerInFlight ==
    /\ lsn[2].pc = "stopped" /\ lsn[2].stop
    /\ Unsubscribed(2)
    /\ lsn[2].handlers > 0
    /\ lsn[2].raised

(***************************************************************************)
(* history_downloader.py load_history, one call after another for one      *)
(* account (the lock of admin_history lets no two run together): the wait  *)
(* for the authorized state, the listing of the chats, then per chat the   *)
(* history, the import of its entries in one session and the commit.  The  *)
(* provider serves the same history to every call.                         *)
(***************************************************************************)
MaxRuns == 2

TextEntry(wa_id, chat_id, incoming) ==
    HistoryEntry([mtype |-> "textMessage", c |-> [text |-> "hi"]], wa_id, chat_id, incoming)

\* the histories the provider may hold, chat by chat: "wa0" is the message
\* the store already has, "wa3" an image whose entry carries no downloadUrl,
\* "wa4" a poll update, which payload_to_msg ignores
ProviderHistories ==
    { (ChatA :> << TextEntry("wa0", ChatA, FALSE), TextEntry("wa1", ChatA, TRUE),
                   HistoryEntry([mtype |-> "pollUpdateMessage", c |-> [name |-> "Lunch?"]],
                                "wa4", ChatA, TRUE) >>)
        @@ (ChatB :> << HistoryEntry([mtype |-> "imageMessage",
                                      c |-> [caption |-> "cap", fileName |-> "a.jpg",
                                             mimeType |-> "image/jpeg"]],
                                     "wa3", ChatB, FALSE) >>),
      (ChatA :> << TextEntry("wa1", ChatA, TRUE),
                   HistoryEntry([mtype |-> "groupInviteMessage",
                                 c |-> [groupName |-> "Team", groupJid |-> "1203@g.us"]],
                                "wa2", ChatA, TRUE) >>) }

\* one call of load_history: the history the provider holds, where the call
\* is, its wait_authorized, the get_state calls made, the number of the
\* call, whether the listing was asked, the rows the store had when the call
\* began, the chats to go, the chat at hand with the entries to go and the
\* length of its history, the Messages added to the session, the two
\* counters, the per-chat lines of the closing notice, how the call ended
\* and how the call before it ended
IdleHist(provider) ==
    [ provider |-> provider, pc |-> "idle", wait |-> FALSE, polls |-> 0, run |-> 0,
      fetched |-> FALSE, rows_before |-> 0, todo |-> {}, chat |-> ChatA, rest |-> << >>,
      n |-> 0, pending |-> << >>, total_saved |-> 0, total_skipped |-> 0, info |-> << >>,
      out |-> "none", prev_out |-> "none" ]

\* load_history has returned or raised
HistEnded(h, out) == [h EXCEPT !.pc = "done", !.out = out]

\* "except Exception": the chat is reported as failed, its session is gone
\* with what was added to it
ChatFailed(h) ==
    [h EXCEPT !.pc = "fetch", !.pending = << >>, !.rest = << >>,
              !.info = Append(@, [chat |-> h.chat, ok |-> FALSE, n |-> h.n,
                                  saved |-> 0, skipped |-> 0])]

\* a wait for the authorized state that gives up at the first other answer
HistAfterStateNoWait(h, answer) ==
    LET polled == [h EXCEPT !.polls = @ + 1]
    IN  IF answer = Raised THEN HistEnded(polled, "raised")
        ELSE IF answer = "authorized" THEN [polled EXCEPT !.pc = "listing"]
        ELSE HistEnded(polled, "not_authorized")

\* lines 236-251: client.get_state() has answered
HistAfterState(h, answer) ==
    LET polled == [h EXCEPT !.polls = @ + 1]
    IN  IF answer = Raised THEN HistEnded(polled, "raised")
        ELSE IF answer = "authorized" THEN [polled EXCEPT !.pc = "listing"]
        ELSE IF h.wait /\ polled.polls < PollLimit THEN polled
        ELSE HistEnded(polled, "not_authorized")

\* load_history(app, api_id, wait_authorized=wait) is called
HistCall(wait) ==
    /\ hist.pc \in {"idle", "done"}
    /\ hist.run < MaxRuns
    /\ hist' = [IdleHist(hist.provider) EXCEPT
                  !.pc = "state", !.wait = wait, !.run = hist.run + 1,
                  !.rows_before = Len(messages), !.prev_out = hist.out]
    /\ UNCHANGED <<messages, conversations, histFrame>>

HistState(answer) ==
    /\ hist.pc = "state"
    /\ hist' = HistAfterState(hist, answer)
    /\ UNCHANGED <<messages, conversations, histFrame>>

\* lines 254-268: last_incoming and last_outgoing answer and the account's
\* row is found
HistListing(ok) ==
    /\ hist.pc = "listing"
    /\ hist' = IF ok THEN [hist EXCEPT !.pc = "fetch", !.fetched = TRUE,
                                       !.todo = DOMAIN hist.provider]
               ELSE HistEnded([hist EXCEPT !.fetched = TRUE], "raised")
    /\ UNCHANGED <<messages, conversations, histFrame>>

\* line 275: get_chat_history of the next chat of the set answers
HistFetch(chat_id) ==
    /\ hist.pc = "fetch"
    /\ chat_id \in hist.todo
    /\ hist' = [hist EXCEPT !.pc = "entry", !.todo = @ \ {chat_id}, !.chat = chat_id,
                            !.rest = hist.provider[chat_id],
                            !.n = Len(hist.provider[chat_id]),
                            !.pending = << >>, !.total_saved = 0, !.total_skipped = 0]
    /\ UNCHANGED <<messages, conversations, histFrame>>

\* line 312: every chat has been worked through, the closing notice is sent
HistFinish ==
    /\ hist.pc = "fetch"
    /\ hist.todo = {}
    /\ hist' = HistEnded(hist, "finished")
    /\ UNCHANGED <<messages, conversations, histFrame>>

\* the session's SELECT sees the rows of the store and, flushed before the
\* query, the Messages added to the session
InSession(h, wa_id) ==
    \/ SelectMessage(MapInstanceId, wa_id) # NoId
    \/ \E i \in 1..Len(h.pending) : h.pending[i].wa_message_id = wa_id

\* lines 279-288: the entry is looked up by its provider message id; one
\* that is stored is counted as skipped
HistEntry ==
    /\ hist.pc = "entry"
    /\ hist.rest # << >>
    /\ LET entry == Head(hist.rest)
           probe == IngestHistoryEntry(entry, MapApiId, MapInstanceId, None, NoDownload)
       IN  hist' = IF InSession(hist, entry.idMessage)
                   THEN [hist EXCEPT !.total_skipped = @ + 1, !.rest = Tail(@)]
                   ELSE IF "conversation" \in probe.effects
                   THEN [hist EXCEPT !.pc = "conv"]
                   ELSE [hist EXCEPT !.pc = "build"]
    /\ UNCHANGED <<messages, conversations, histFrame>>

\* get_or_create_conversation inside payload_to_msg: a new Conversation is
\* committed, and with it what the session holds
HistConv ==
    /\ hist.pc = "conv"
    /\ LET key == ConvKey(MapInstanceId, Head(hist.rest).chatId)
       IN  IF key \in conversations
           THEN /\ hist' = [hist EXCEPT !.pc = "build"]
                /\ UNCHANGED <<messages, conversations>>
           ELSE /\ conversations' = conversations \cup {key}
                /\ messages' = messages \o hist.pending
                /\ hist' = [hist EXCEPT !.pc = "build", !.pending = << >>]
    /\ UNCHANGED histFrame

\* lines 290-303: the adapter and payload_to_msg, with what the provider
\* answers to the download; None is counted as skipped, a Message is marked
\* archived, added to the session and counted as saved
HistBuild(lookup, dl) ==
    /\ hist.pc = "build"
    /\ LET entry == Head(hist.rest)
           res == IngestHistoryEntry(entry, MapApiId, MapInstanceId, lookup, dl)
       IN  hist' = IF res.kind = "raise" THEN ChatFailed(hist)
                   ELSE IF res.kind = "none"
                   THEN [hist EXCEPT !.pc = "entry", !.total_skipped = @ + 1,
                                     !.rest = Tail(@)]
                   ELSE [hist EXCEPT !.pc = "entry", !.total_saved = @ + 1,
                                     !.rest = Tail(@),
                                     !.pending = Append(@, [res.msg EXCEPT
                                                              !.is_archived = TRUE])]
    /\ UNCHANGED <<messages, conversations, histFrame>>

\* line 304: the commit after the last entry, and the chat's line of the
\* closing notice
HistCommit ==
    /\ hist.pc = "entry"
    /\ hist.rest = << >>
    /\ messages' = messages \o hist.pending
    /\ hist' = [hist EXCEPT !.pc = "fetch", !.pending = << >>,
                            !.info = Append(@, [chat |-> hist.chat, ok |-> TRUE,
                                                n |-> hist.n,
                                                saved |-> hist.total_saved,
                                                skipped |-> hist.total_skipped])]
    /\ UNCHANGED <<conversations, histFrame>>

HistInit == \E provider \in ProviderHistories : hist = IdleHist(provider)

HistIdle == hist = IdleHist((ChatA :> << >>))

HistNext ==
    \/ \E wait \in BOOLEAN : HistCall(wait)
    \/ \E answer \in {"authorized", "notAuthorized", "starting", Raised} : HistState(answer)
    \/ \E ok \in BOOLEAN : HistListing(ok)
    \/ \E chat_id \in {ChatA, ChatB} : HistFetch(chat_id)
    \/ HistFinish
    \/ HistEntry
    \/ HistConv
    \/ \E lookup \in Lookups, dl \in DownloadOutcomes : HistBuild(lookup, dl)
    \/ HistCommit

\* C29: with wait_authorized load_history asks the state at most 30 times
\* and gives up as not authorized when none of the answers is authorized;
\* without it the first other answer ends it; a call that gave up has
\* asked for no history and written no Message.
C29_GivesUpAfterPolls ==
    /\ hist.polls <= PollLimit
    /\ ~hist.wait => hist.polls <= 1
    /\ hist.out = "not_authorized"
           => /\ hist.polls = IF hist.wait THEN PollLimit ELSE 1
              /\ ~hist.fetched
              /\ hist.info = << >>
              /\ Len(messages) = hist.rows_before

\* the second call waited through its 30 polls and gave up, leaving the
\* rows the first call had imported as they were
C29_GaveUpAfterThirtyPolls ==
    /\ hist.run = 2 /\ hist.wait
    /\ hist.out = "not_authorized" /\ hist.polls = PollLimit
    /\ hist.prev_out = "finished"
    /\ Len(messages) > 1

\* no two rows of the store carry the same account and provider message id
NoDoubleRows ==
    \A i, j \in 1..Len(messages) :
        (/\ i # j
         /\ messages[i].instance_id = messages[j].instance_id
         /\ messages[i].wa_message_id # None)
            => messages[i].wa_message_id # messages[j].wa_message_id

\* C30: the backfill ingests an entry only when no Message with its account
\* and provider message id exists; a second call over the same history adds
\* no Message and counts every entry as skipped.
C30_SecondRunSkipsAll ==
    /\ NoDoubleRows
    /\ (hist.run = 2 /\ hist.out = "finished" /\ hist.prev_out = "finished")
           => /\ Len(messages) = hist.rows_before
              /\ Len(hist.info) = Cardinality(DOMAIN hist.provider)
              /\ \A i \in 1..Len(hist.info) :
                     /\ hist.info[i].ok
                     /\ hist.info[i].saved = 0
                     /\ hist.info[i].skipped = hist.info[i].n

(***************************************************************************)
(* history_downloader.py _split_message: a text as the sequence of its     *)
(* characters, one step per turn of the while loop.  The two limits of     *)
(* Telegram (4096 and 1024 characters) are scaled down.                    *)
(***************************************************************************)
\* max_msg_length of a part without a photo (4096 in the source)
TextLimit == 4

\* max_msg_length of the first part with a photo (1024 in the source)
CaptionLimit == 2

MaxText == 8

Chars == {"x", " ", "\n"}

Texts == UNION { [1..n -> Chars] : n \in 0..MaxText }

\* s[:n]
Take(s, n) == SubSeq(s, 1, IF n < Len(s) THEN n ELSE Len(s))

\* s[n:]
Drop(s, n) == SubSeq(s, n + 1, Len(s))

\* str.find: the index, from 0, of the first ch in s, or -1
Find(s, ch) ==
    LET at == { i \in 1..Len(s) : s[i] = ch }
    IN  IF at = {} THEN -1 ELSE (CHOOSE i \in at : \A j \in at : i <= j) - 1

\* str.rfind: the index, from 0, of the last ch in s, or -1
RFind(s, ch) ==
    LET at == { i \in 1..Len(s) : s[i] = ch }
    IN  IF at = {} THEN -1 ELSE (CHOOSE i \in at : \A j \in at : i >= j) - 1

\* lines 83-88: the limit of the part to come
max_msg_length(parts, with_photo) ==
    IF parts # << >> THEN TextLimit
    ELSE IF with_photo THEN CaptionLimit
    ELSE TextLimit

\* one call of _split_message: its arguments, what is left of msg, the
\* parts so far and whether it has returned
IdleSplit == [text |-> << >>, with_photo |-> FALSE, msg |-> << >>, parts |-> << >>,
              returned |-> FALSE]

\* one turn of "while msg", or the return when msg is empty
SplitTurn ==
    /\ ~split.returned
    /\ LET msg == split.msg
           limit == max_msg_length(split.parts, split.with_photo)
           part == Take(msg, limit)
           first_ln == RFind(part, "\n")
           first_space == RFind(part, " ")
       IN  split' =
             IF msg = << >> THEN [split EXCEPT !.returned = TRUE]
             ELSE IF Len(msg) <= limit
             THEN [split EXCEPT !.parts = Append(@, msg), !.returned = TRUE]
             ELSE IF first_ln # -1
             THEN [split EXCEPT !.parts = Append(@, Take(part, first_ln)),
                                !.msg = Drop(msg, first_ln + 1)]
             ELSE IF first_space # -1
             THEN [split EXCEPT !.parts = Append(@, Take(part, first_space)),
                                !.msg = Drop(msg, first_space + 1)]
             ELSE [split EXCEPT !.parts = Append(@, part), !.msg = Drop(msg, limit)]
    /\ UNCHANGED splitFrame

SplitInit ==
    \E text \in Texts, with_photo \in BOOLEAN :
        split = [IdleSplit EXCEPT !.text = text, !.with_photo = with_photo, !.msg = text]

SplitIdle == split = IdleSplit

SplitNext == SplitTurn

\* the limit the i-th part has to keep
PartLimit(i) == IF i = 1 /\ split.with_photo THEN CaptionLimit ELSE TextLimit

\* the positions, from 1, of ch in the first n characters of s
Within(s, n, ch) == { i \in 1..n : s[i] = ch }

Last(S) == CHOOSE i \in S : \A j \in S : i >= j

\* a turn that meets a remainder longer than the limit breaks it at the
\* last newline of the window, else at the last space, else at the limit
BreaksWhereStated ==
    LET msg == split.msg
        limit == PartLimit(Len(split.parts) + 1)
        lns == Within(msg, limit, "\n")
        sps == Within(msg, limit, " ")
        cut == IF lns # {} THEN Last(lns) ELSE Last(sps)
    IN  (~split.returned /\ Len(msg) > limit)
            => IF lns # {} \/ sps # {}
               THEN /\ split'.parts = Append(split.parts, SubSeq(msg, 1, cut - 1))
                    /\ split'.msg = SubSeq(msg, cut + 1, Len(msg))
               ELSE /\ split'.parts = Append(split.parts, SubSeq(msg, 1, limit))
                    /\ split'.msg = SubSeq(msg, limit + 1, Len(msg))

\* C31: no part _split_message returns is longer than its limit (the
\* smaller one for the first part with a photo), and a remainder longer
\* than the limit is broken at the last newline inside the window, else at
\* the last space, else cut at the limit.
C31_PartsWithinLimit ==
    [][ /\ BreaksWhereStated
        /\ \A i \in 1..Len(split'.parts) : Len(split'.parts[i]) <= PartLimit(i) ]_vars

\* a text with a photo was broken at a newline inside the first window and
\* then cut at the limit for want of a newline or a space
C31_NewlineThenHardCut ==
    /\ split.returned /\ split.with_photo
    /\ Len(split.parts) = 3
    /\ Len(split.parts[1]) = CaptionLimit - 1
    /\ split.text[CaptionLimit] = "\n"
    /\ Len(split.parts[2]) = TextLimit

\* C39: _split_message never returns an empty part.
C39_NoEmptyPart ==
    \A i \in 1..Len(split.parts) : split.parts[i] # << >>

(***************************************************************************)
(* listeners/msg_in_listener.py: the handlers of several msg_in            *)
(* notifications side by side.  _handler is a coroutine, so the connection *)
(* starts one task per notification and their steps interleave at every    *)
(* await.  The run is shorter than one AUTO_REPLY_INTERVAL, so every       *)
(* is_auto row is inside the window of the auto-reply SELECT.              *)
(***************************************************************************)
MaxConcurrent == 2

InHandlers == 1..MaxConcurrent

\* incoming texts of the live pipeline: two of one chat, one of another
InboundRows ==
    << PayloadToMsg(NativePayload(TextHi, MapApiId, "wa1", ChatB, TRUE), MapInstanceId,
                    TRUE, FALSE, None, NoDownload).msg,
       PayloadToMsg(NativePayload(TextHi, MapApiId, "wa2", ChatB, TRUE), MapInstanceId,
                    TRUE, FALSE, None, NoDownload).msg >>

ConDone(w, out) == [IdleInb EXCEPT !.pc = "done", !.msg_id = w.msg_id, !.out = out]

\* a notification on msg_in arrives: a task of its own decodes it and asks
\* for the message
ConNotify(h, id) ==
    /\ inh[h].pc \in {"idle", "done"}
    /\ notifies < MaxNotifies
    /\ notifies' = notifies + 1
    /\ inh' = [inh EXCEPT ![h] = [IdleInb EXCEPT !.pc = "select", !.msg_id = id]]
    /\ UNCHANGED <<messages, tg_sent, autos, auto_cfg, conFrame>>

\* the SELECT answers: the branches up to the first bot call
ConLoad(h) ==
    /\ inh[h].pc = "select"
    /\ LET w == inh[h]
       IN  IF w.msg_id > Len(messages)
           THEN inh' = [inh EXCEPT ![h] = ConDone(w, "not_found")] /\ UNCHANGED tg_sent
           ELSE LET msg == messages[w.msg_id]
                IN  IF SkipsArchived(msg)
                    THEN inh' = [inh EXCEPT ![h] = ConDone(w, "skipped")] /\ UNCHANGED tg_sent
                    ELSE IF msg.message_type = "call"
                    THEN IF msg.direction = "inc"
                         THEN /\ inh' = [inh EXCEPT ![h].pc = "send"]
                              /\ tg_sent' = Append(tg_sent, TgCall(w.msg_id, "send_message"))
                         ELSE inh' = [inh EXCEPT ![h] = ConDone(w, "handled")]
                              /\ UNCHANGED tg_sent
                    ELSE /\ inh' = [inh EXCEPT ![h] = [w EXCEPT !.pc = "send", !.idx = 1]]
                         /\ tg_sent' = Append(tg_sent, FirstSend(w.msg_id, msg))
    /\ UNCHANGED <<messages, autos, auto_cfg, notifies, conFrame>>

\* a bot call answers or raises; _send_with_files goes on with the next
\* document
ConSendAnswer(h, ok) ==
    /\ inh[h].pc = "send"
    /\ LET w == inh[h]
           msg == messages[w.msg_id]
       IN  IF ~ok
           THEN inh' = [inh EXCEPT ![h].pc = "mark_error"] /\ UNCHANGED tg_sent
           ELSE IF Len(msg.files) > 0 /\ ~SingleMedia(msg) /\ w.idx < Len(msg.files)
           THEN /\ inh' = [inh EXCEPT ![h].idx = w.idx + 1]
                /\ tg_sent' = Append(tg_sent, TgCall(w.msg_id, "send_document"))
           ELSE inh' = [inh EXCEPT ![h] = [w EXCEPT !.pc = "commit_tg", !.idx = 0]]
                /\ UNCHANGED tg_sent
    /\ UNCHANGED <<messages, autos, auto_cfg, notifies, conFrame>>

\* msg.tg_message_id is committed; an incoming message goes on to the
\* auto-reply when the instance has one
ConCommitTg(h) ==
    /\ inh[h].pc = "commit_tg"
    /\ LET w == inh[h]
           msg == messages[w.msg_id]
       IN  /\ messages' = [messages EXCEPT ![w.msg_id].tg_message_id = "tg1"]
           /\ inh' = [inh EXCEPT ![h] =
                        IF /\ msg.message_type # "call"
                           /\ msg.direction = "inc"
                           /\ auto_cfg.auto_reply /\ Truthy(auto_cfg.auto_reply_text)
                        THEN [w EXCEPT !.pc = "auto_select"]
                        ELSE ConDone(w, "handled")]
    /\ UNCHANGED <<tg_sent, autos, auto_cfg, notifies, conFrame>>

\* the SELECT for an is_auto row of this account and chat within
\* AUTO_REPLY_INTERVAL
AutoExists(msg) ==
    \E a \in autos : /\ messages[a].instance_id = msg.instance_id
                     /\ messages[a].chat_id = msg.chat_id

\* the auto-reply SELECT answers
ConAutoSelect(h) ==
    /\ inh[h].pc = "auto_select"
    /\ LET w == inh[h]
       IN  inh' = [inh EXCEPT ![h] =
                     IF AutoExists(messages[w.msg_id]) THEN ConDone(w, "handled")
                     ELSE [w EXCEPT !.pc = "auto_commit"]]
    /\ UNCHANGED <<messages, tg_sent, autos, auto_cfg, notifies, conFrame>>

\* db.add(auto_msg); await db.commit()
ConAutoCommit(h) ==
    /\ inh[h].pc = "auto_commit"
    /\ LET w == inh[h]
           msg == messages[w.msg_id]
       IN  /\ messages' = Append(messages,
                                 AutoMsg(msg.instance_id, msg, auto_cfg.auto_reply_text))
           /\ autos' = autos \cup {Len(messages) + 1}
           /\ inh' = [inh EXCEPT ![h] = ConDone(w, "auto_replied")]
    /\ UNCHANGED <<tg_sent, auto_cfg, notifies, conFrame>>

\* except Exception: the message is marked internal_error
ConMarkError(h) ==
    /\ inh[h].pc = "mark_error"
    /\ messages' = [messages EXCEPT ![inh[h].msg_id].status = "internal_error"]
    /\ inh' = [inh EXCEPT ![h] = ConDone(inh[h], "error")]
    /\ UNCHANGED <<tg_sent, autos, auto_cfg, notifies, conFrame>>

ConIdle == inh = [h \in InHandlers |-> IdleInb]

ConInit ==
    /\ messages = InboundRows
    /\ conversations = {ConvKey(MapInstanceId, ChatB)}
    /\ fs = NoFiles
    /\ wh = [h \in Handlers |-> IdleWh]
    /\ delivered = 0
    /\ inb = IdleInb
    /\ tg_sent = << >>
    /\ autos = {}
    /\ auto_cfg \in AutoReplySettings
    /\ notifies = 0
    /\ ConIdle

ConNext ==
    \/ \E h \in InHandlers, id \in 1..(Len(messages) + 1) : ConNotify(h, id)
    \/ \E h \in InHandlers : ConLoad(h)
    \/ \E h \in InHandlers, ok \in BOOLEAN : ConSendAnswer(h, ok)
    \/ \E h \in InHandlers : ConCommitTg(h)
    \/ \E h \in InHandlers : ConAutoSelect(h)
    \/ \E h \in InHandlers : ConAutoCommit(h)
    \/ \E h \in InHandlers : ConMarkError(h)

\* the is_auto rows of one account and chat
AutoReplies(instance_id, chat_id) ==
    { a \in autos : /\ messages[a].instance_id = instance_id
                    /\ messages[a].chat_id = chat_id }

\* C38: at most one auto-reply Message is created per (account, chat) within
\* one auto-reply interval, also when several inbound messages of the same
\* chat are handled concurrently by the inbound-queue handler.
C38_OneAutoReplyPerChat ==
    \A i \in 1..Len(messages) :
        Cardinality(AutoReplies(messages[i].instance_id, messages[i].chat_id)) <= 1

EndIdle == SplitIdle /\ ConIdle

TailIdle == EnsIdle /\ LsnIdle /\ HistIdle /\ EndIdle

\* C35: whenever the dispatcher commits the status sent, the message has a
\* non-null provider message id: a send call whose response carries no
\* idMessage never results in the status sent.
C35_SentHasProviderId ==
    [][ (/\ dsp.pc = "commit_status"
         /\ dsp.st = "sent"
         /\ dsp'.pc # "commit_status")
            => messages'[dsp.msg_id].wa_message_id # None ]_vars

(***************************************************************************)
(* The dispatcher and the provider's webhooks about the same send          *)
(* (msg_out_listener.py handle, webhook.py _handle_outgoing and            *)
(* _handle_status): the webhook handlers run as tasks of their own, so     *)
(* their steps interleave with the dispatcher's at every await.            *)
(***************************************************************************)

\* the admin's message waiting to be sent: a text without attachments
QueuedRows ==
    { row \in OutRows :
        /\ row.wa_message_id = None /\ row.from_app /\ ~row.is_archived
        /\ row.text = "hi" /\ Len(row.files) = 0 }

\* the echo of a send made through the API, for the id the provider gave
EchoPayload ==
    [NativePayload(TextHi, MapApiId, "wa5", ChatA, FALSE)
        EXCEPT !.typeWebhook = "outgoingAPIMessageReceived"]

\* what the provider reports about the message it accepted
SendWebhooks ==
    {EchoPayload} \cup { StatusPayload(MapApiId, "wa5", st) : st \in {"delivered", "read", "failed"} }

\* the provider posts a webhook about the send once it has been asked to send
ProviderPosts(h, p) ==
    /\ ProviderCalls # << >>
    /\ WhDeliver(h, p)

EchoInit ==
    /\ messages \in { << row >> : row \in QueuedRows }
    /\ conversations = {ConvKey(MapInstanceId, ChatA)}
    /\ fs = NoFiles
    /\ wh = [h \in Handlers |-> IdleWh]
    /\ delivered = 0
    /\ dsp = IdleDsp
    /\ calls = << >>

EchoNext ==
    \/ DspLoad
    \/ \E ans \in SendAnswers : DspTextAnswer(ans)
    \/ DspCommitWa
    \/ DspCommitStatus
    \/ DspReact
    \/ DspNotify
    \/ \E h \in Handlers, p \in SendWebhooks : ProviderPosts(h, p)
    \/ \E h \in Handlers : WhResolve(h)
    \/ \E h \in Handlers : WhOutExists(h)
    \/ \E h \in Handlers : WhConvSelect(h)
    \/ \E h \in Handlers : WhCommit(h)
    \/ \E h \in Handlers : WhStSelect(h)
    \/ \E h \in Handlers : WhStCommit(h)
    \/ \E h \in Handlers : WhStNotify(h)

\* C33: once a status webhook has set a sent message to delivered or read,
\* the dispatcher's own completion never writes it back to sent, for every
\* interleaving of the dispatcher (between assigning the provider id and
\* marking the status) with the status handler.
C33_DeliveredNotWrittenBack ==
    [][ (/\ dsp.pc = "commit_status"
         /\ dsp'.pc # "commit_status"
         /\ OutMsg.status \in {"delivered", "read"})
            => OutMsg'.status # "sent" ]_vars

\* the echo webhook of the send has been handled to its end
EchoHandled ==
    \E h \in Handlers :
        wh[h].pc = "idle" /\ wh[h].payload = EchoPayload /\ wh[h].out # "none"

\* C34: for a message the dispatcher sent successfully, once the dispatcher
\* and the echo webhook of the same provider id have both been processed,
\* in either order, exactly one Message row represents the send: the
\* dispatcher's row, carrying that provider id, not internal_error, and no
\* second row stored for the echo.
C34_OneRowPerSend ==
    (/\ dsp.pc = "done" /\ dsp.wa = "wa5"
     /\ EchoHandled)
        => /\ { i \in 1..Len(messages) : messages[i].wa_message_id = "wa5" } = {dsp.msg_id}
           /\ OutMsg.status # "internal_error"
           /\ \A i \in 1..Len(messages) : i # dsp.msg_id => messages[i].direction = "sys"

\* the stored attachments that came in through download_safe
Downloads == { a \in Attachments : messages[a[1]].wa_message_id # None }

\* C36: a failed or retried media download never removes or truncates a file
\* an already stored attachment points to: no step of an ingest handler
\* changes or removes the file at the path of a stored downloaded attachment,
\* so the path still holds the bytes downloaded for that attachment.
C36_StoredFilesKept ==
    [][ \A a \in Downloads :
          (/\ wh' # wh
           /\ StoredPath(a) \in DOMAIN fs)
              => /\ StoredPath(a) \in DOMAIN fs'
                 /\ fs'[StoredPath(a)] = fs[StoredPath(a)] ]_vars

(***************************************************************************)
(* The specifications: one per part, the other parts at rest.              *)
(***************************************************************************)
\* the first six parts at rest
BaseIdle ==
    MapIdle /\ DbInit /\ UpIdle /\ LimIdle /\ BfInit /\ OutIdle

\* the parts after the first eight at rest
LateIdle ==
    BusIdle /\ InIdle /\ PaceIdle /\ TailIdle

\* the later parts at rest
MoreIdle ==
    ClInit /\ RegIdle /\ LateIdle

InitMap ==
    MapInit /\ DbInit /\ UpIdle /\ LimIdle /\ BfInit /\ OutIdle /\ MoreIdle

Init ==
    MapIdle /\ DbInit /\ UpIdle /\ LimIdle /\ BfInit /\ OutIdle /\ MoreIdle

InitLimiter ==
    MapIdle /\ DbInit /\ UpIdle /\ LimInit /\ BfInit /\ OutIdle /\ MoreIdle

InitDispatch ==
    MapIdle /\ OutInit /\ UpIdle /\ LimIdle /\ BfInit /\ MoreIdle

SpecMap == InitMap /\ [][MapNext]_vars

SpecIngest == Init /\ [][IngestNext]_vars

SpecMedia == Init /\ [][MediaNext]_vars

SpecLimiter == InitLimiter /\ [][LimNext]_vars

SpecBackfill == Init /\ [][BfNext]_vars

SpecDispatch == InitDispatch /\ [][OutNext]_vars

InitClient ==
    BaseIdle /\ ClInit /\ RegIdle /\ LateIdle

SpecClient == InitClient /\ [][ClNext]_vars

InitRegistry ==
    BaseIdle /\ ClInit /\ RegInit /\ LateIdle

SpecRegistry == InitRegistry /\ [][RegNext]_vars

SpecBus == Init /\ [][BusNext]_vars

InitArchive ==
    MapIdle /\ ArchiveInit /\ UpIdle /\ LimIdle /\ BfInit /\ ClInit /\ RegIdle /\ BusIdle
        /\ PaceIdle /\ TailIdle

SpecArchive == InitArchive /\ [][ArchiveNext]_vars

SpecPace == Init /\ [][PaceNext]_vars

SpecCall == Init /\ [][CallNext]_vars

InitWebhook ==
    BaseIdle /\ ClInit /\ RegIdle /\ BusIdle /\ InIdle /\ PaceIdle /\ EnsInit /\ LsnIdle
        /\ HistIdle /\ EndIdle

SpecWebhook == InitWebhook /\ [][EnsNext]_vars

SpecListen == Init /\ [][LsnNext]_vars /\ LsnFair

InitHistory ==
    BaseIdle /\ ClInit /\ RegIdle /\ BusIdle /\ InIdle /\ PaceIdle /\ EnsIdle /\ LsnIdle
        /\ HistInit /\ EndIdle

SpecHistory == InitHistory /\ [][HistNext]_vars

\* every part but the last at rest
HeadIdle ==
    BaseIdle /\ ClInit /\ RegIdle /\ BusIdle /\ InIdle /\ PaceIdle /\ EnsIdle /\ LsnIdle
        /\ HistIdle

InitSplit == HeadIdle /\ SplitInit /\ ConIdle

SpecSplit == InitSplit /\ [][SplitNext]_vars

InitEcho ==
    MapIdle /\ EchoInit /\ UpIdle /\ LimIdle /\ BfInit /\ MoreIdle

SpecEcho == InitEcho /\ [][EchoNext]_vars

InitAuto ==
    MapIdle /\ ConInit /\ UpIdle /\ LimIdle /\ BfInit /\ OutIdle /\ ClInit /\ RegIdle
        /\ BusIdle /\ PaceIdle /\ EnsIdle /\ LsnIdle /\ HistIdle /\ SplitIdle

SpecAuto == InitAuto /\ [][ConNext]_vars

====
